---- MODULE Spec2Model ----
(***************************************************************************)
(* Model of github-releaser-llm: the version/branch resolver of            *)
(* github_client.rs and the release workflow process_release of main.rs.   *)
(*                                                                         *)
(* Strings are sequences of one-character strings, so that the regular     *)
(* expression, the decimal parsing and the formatting of the source are    *)
(* computed character by character.                                        *)
(***************************************************************************)
EXTENDS Integers, Sequences, FiniteSets, TLC

(***************************************************************************)
(* Characters.                                                             *)
(***************************************************************************)
AsciiDigits == <<"0", "1", "2", "3", "4", "5", "6", "7", "8", "9">>

AsciiDigitSet == {AsciiDigits[i] : i \in 1..10}

\* A decimal digit of another script (ARABIC-INDIC DIGIT THREE, U+0663): the
\* regex crate's \d is Unicode-aware (\p{Nd}), str::parse::<u32> is ASCII only.
ArabicIndicThree == "U+0663"

\* '\d' of the regex at github_client.rs:278 / :295.
IsRegexDigit(c) == c \in AsciiDigitSet \/ c = ArabicIndicThree

\* '.' of the regex: any character except the line feed.
IsRegexDot(c) == c # "\n"

DigitValue(c) == CHOOSE d \in 0..9 : AsciiDigits[d + 1] = c

(***************************************************************************)
(* The captures of the regular expression of github_client.rs:278 and     *)
(* :295: anchored, the letter v, three dot-separated greedy digit runs     *)
(* (groups 1 to 3), then any run of non-newline characters (group 4) up to *)
(* the end of the text.                                                    *)
(***************************************************************************)
RECURSIVE DigitRunEnd(_, _)
\* Index of the first character at or after i that \d does not match
\* (Len(s) + 1 when the digits run to the end): the greedy \d+.
DigitRunEnd(s, i) ==
  IF i <= Len(s) /\ IsRegexDigit(s[i]) THEN DigitRunEnd(s, i + 1) ELSE i

NoCaptures == [matched |-> FALSE, major |-> <<>>, minor |-> <<>>,
               patch |-> <<>>, suffix |-> <<>>]

SemverCaptures(tag) ==
  LET n  == Len(tag)
      e1 == DigitRunEnd(tag, 2)
      e2 == DigitRunEnd(tag, e1 + 1)
      e3 == DigitRunEnd(tag, e2 + 1)
  IN  IF /\ n >= 1 /\ tag[1] = "v"
         /\ e1 > 2 /\ e1 <= n /\ tag[e1] = "."
         /\ e2 > e1 + 1 /\ e2 <= n /\ tag[e2] = "."
         /\ e3 > e2 + 1
         /\ \A k \in e3..n : IsRegexDot(tag[k])
      THEN [matched |-> TRUE,
            major   |-> SubSeq(tag, 2, e1 - 1),
            minor   |-> SubSeq(tag, e1 + 1, e2 - 1),
            patch   |-> SubSeq(tag, e2 + 1, e3 - 1),
            suffix  |-> SubSeq(tag, e3, n)]
      ELSE NoCaptures

(***************************************************************************)
(* u32 arithmetic.  A u32 is held as two 16-bit limbs <<hi, lo>>, value    *)
(* hi * 2^16 + lo, so that the full 32-bit width is kept.                  *)
(***************************************************************************)
U32Limb == 65536

U32Zero == [hi |-> 0, lo |-> 0]

RECURSIVE ParseU32From(_, _, _)
\* str::parse::<u32>: checked multiply-by-ten-and-add over ASCII digits;
\* invalid on any other character, overflow past u32::MAX.
ParseU32From(s, i, acc) ==
  IF i > Len(s) THEN [kind |-> "ok", val |-> acc]
  ELSE IF s[i] \notin AsciiDigitSet THEN [kind |-> "invalid", val |-> U32Zero]
  ELSE LET l  == acc.lo * 10 + DigitValue(s[i])
           h  == acc.hi * 10 + (l \div U32Limb)
       IN  IF h >= U32Limb THEN [kind |-> "overflow", val |-> U32Zero]
           ELSE ParseU32From(s, i + 1, [hi |-> h, lo |-> l % U32Limb])

ParseU32(s) ==
  IF Len(s) = 0 THEN [kind |-> "invalid", val |-> U32Zero]
  ELSE ParseU32From(s, 1, U32Zero)

\* x + 1 on u32: the carry out of the high limb is the overflow.
U32AddOne(x) ==
  LET l == x.lo + 1
      h == x.hi + (l \div U32Limb)
  IN  [overflow |-> h >= U32Limb,
       val      |-> [hi |-> h % U32Limb, lo |-> l % U32Limb]]

RECURSIVE U32DigitsOf(_)
\* Decimal digits of a non-zero u32, most significant first (long division
\* of the two limbs by ten).
U32DigitsOf(x) ==
  IF x.hi = 0 /\ x.lo = 0 THEN <<>>
  ELSE LET t == (x.hi % 10) * U32Limb + x.lo
       IN  Append(U32DigitsOf([hi |-> x.hi \div 10, lo |-> t \div 10]),
                  AsciiDigits[(t % 10) + 1])

\* Display of a u32 (the {} of format!).
FormatU32(x) == IF x.hi = 0 /\ x.lo = 0 THEN <<"0">> ELSE U32DigitsOf(x)

(***************************************************************************)
(* Result<String, Box<dyn Error>>, plus the panic of an unwrap or of an    *)
(* overflow-checked addition.                                              *)
(***************************************************************************)
Ok(v) == [kind |-> "ok", val |-> v, error |-> "none"]

Err(e) == [kind |-> "err", val |-> <<>>, error |-> e]

Panic(e) == [kind |-> "panic", val |-> <<>>, error |-> e]

NoResult == [kind |-> "none", val |-> <<>>, error |-> "none"]

(***************************************************************************)
(* The version functions of GitHubClient.                                  *)
(***************************************************************************)
\* overflow_checks is the build's setting for integer overflow: on (the dev
\* profile) the addition panics, off (the release profile) it wraps.
increment_patch_version(tag, overflow_checks) ==
  LET caps == SemverCaptures(tag)
      p    == ParseU32(caps.patch)
      n    == U32AddOne(p.val)
  IN  IF ~caps.matched THEN Err("InvalidTagFormat")
      ELSE IF p.kind # "ok" THEN Panic("ParseIntError")
      ELSE IF n.overflow /\ overflow_checks THEN Panic("AddOverflow")
      ELSE Ok(<<"v">> \o caps.major \o <<".">> \o caps.minor \o <<".">>
              \o FormatU32(n.val) \o caps.suffix)

get_minor_version(tag) ==
  LET caps == SemverCaptures(tag)
  IN  IF caps.matched THEN Ok(caps.major \o <<".">> \o caps.minor)
      ELSE Err("InvalidTagFormat")

ReleasePrefix == <<"r", "e", "l", "e", "a", "s", "e", "/">>

get_release_branch_name(tag) ==
  LET minor_version == get_minor_version(tag)
  IN  IF minor_version.kind # "ok" THEN minor_version
      ELSE Ok(ReleasePrefix \o <<"v">> \o minor_version.val \o <<".", "x">>)

(***************************************************************************)
(* Option<T>.                                                              *)
(***************************************************************************)
None == [some |-> FALSE]

Some(v) == [some |-> TRUE, val |-> v]

(***************************************************************************)
(* Bounds and input sets.                                                  *)
(***************************************************************************)
\* Longest tag of the exhaustively enumerated inputs of the version functions.
MaxTagLen == 6

TagAlphabet == {"v", "0", "9", ".", "-"}

\* Inputs beyond MaxTagLen: the examples of the tests, tags around u32::MAX,
\* leading zeros, a digit of another script, a line feed in the suffix.
ExtraTags ==
  { <<"v", "1", ".", "2", ".", "3">>,
    <<"v", "2", ".", "0", ".", "9">>,
    <<"v", "3", ".", "4", ".", "5", "-", "b", "e", "t", "a">>,
    <<"v", "3", ".", "4", ".", "5", "-", "a", "l", "p", "h", "a">>,
    <<"v", "1", "0", ".", "2", "0", ".", "0", "0", "7", ".", "4">>,
    <<"v", "1", ".", "2", ".", "6", "5", "5", "3", "5">>,
    <<"v", "1", ".", "2", ".", "4", "2", "9", "4", "9", "6", "7", "2", "9", "4">>,
    <<"v", "1", ".", "2", ".", "4", "2", "9", "4", "9", "6", "7", "2", "9", "5">>,
    <<"v", "1", ".", "2", ".", "4", "2", "9", "4", "9", "6", "7", "2", "9", "5", "-", "r", "c">>,
    <<"v", "1", ".", "2", ".", "4", "2", "9", "4", "9", "6", "7", "2", "9", "6">>,
    <<"v", "1", ".", "2", ".", "9", "9", "9", "9", "9", "9", "9", "9", "9", "9", "9">>,
    <<"v", "1", ".", "2", ".", ArabicIndicThree>>,
    <<"v", ArabicIndicThree, ".", "2", ".", "3">>,
    <<"v", "1", ".", "2", ".", "3", "\n">>,
    <<"v", "1", ".", "2", ".", "x">>,
    <<"v", "1", ".", "x", ".", "3">>,
    <<"1", ".", "2", ".", "3">>,
    <<"V", "1", ".", "2", ".", "3">> }

TagInputs ==
  UNION {[1..n -> TagAlphabet] : n \in 0..MaxTagLen} \cup ExtraTags

VersionFunctions ==
  {"increment_patch_version", "get_minor_version", "get_release_branch_name"}

(***************************************************************************)
(* State.                                                                  *)
(***************************************************************************)
VARIABLES
  arg_tag, called, answers,    \* one call of a version function: its input,
  returned,                    \*   its name, what the host answered, its result
  releases,                    \* host: the releases
  refs,                        \* host: the tag refs
  tag_objects,                 \* host: the annotated tag objects
  branches,                    \* host: the names of the existing branches
  next_id,                     \* host: the id the next release gets
  run,                         \* process_release: its position and locals
  ops,                         \* the remote operations issued so far, in order
  faulty,                      \* host: whether its answers can be faults
  history,                     \* the ends of the earlier runs, in order
  profile,                     \* the build: Cargo profile "dev" or "release"
  suspended                    \* a second process of the tool, not running now

fn_vars == <<arg_tag, called, answers, returned, profile>>

host_vars == <<releases, refs, tag_objects, branches, next_id, faulty>>

vars == <<fn_vars, host_vars, run, ops, history, suspended>>

\* Integer overflow is checked in the dev profile and wraps in the release
\* profile (Cargo's defaults; the repository sets neither).
OverflowChecks == profile = "dev"

\* The builds to tell apart for a run on tag t: both where the increment of
\* t comes out differently, one where it does not.
Profiles(t) ==
  IF increment_patch_version(t, TRUE) = increment_patch_version(t, FALSE)
  THEN {"dev"} ELSE {"dev", "release"}

\* No second process.
Nobody == [present |-> FALSE]

(***************************************************************************)
(* HTTP.  A response is its status code; status 0 stands for a request     *)
(* that got no response (the error of send().await?).                      *)
(***************************************************************************)
Transport == 0

\* StatusCode::is_success: 2xx.
is_success(status) == status >= 200 /\ status <= 299

\* What an unhealthy host or network may answer to any request.
Faults == {500, Transport}

\* The faults the host can answer with in this behaviour.
FaultsNow == IF faulty THEN Faults ELSE {}

(***************************************************************************)
(* GitHubClient: how each method turns the response into its Result.       *)
(* data is the decoded JSON body of a successful response.                 *)
(***************************************************************************)
\* (mutant) every answer but 200 counts as absence
get_release_by_tag_AbsentOnError(status, data) ==
  IF status = 200 THEN Ok(Some(data)) ELSE Ok(None)

get_release_by_tag(status, data) ==
  IF status = Transport THEN Err("transport")
  ELSE IF status = 200 THEN Ok(Some(data))
  ELSE IF status = 404 THEN Ok(None)
  ELSE Err("Failed to get release")

\* (mutant) not-found counts as deleted, as in delete_tag
delete_release_Tolerant(status) ==
  IF status = Transport THEN Err("transport")
  ELSE IF is_success(status) \/ status = 404 THEN Ok(<<>>)
  ELSE Err("Failed to delete release")

delete_release(status) ==
  IF status = Transport THEN Err("transport")
  ELSE IF is_success(status) THEN Ok(<<>>)
  ELSE Err("Failed to delete release")

delete_tag(status) ==
  IF status = Transport THEN Err("transport")
  ELSE IF is_success(status) \/ status = 404 THEN Ok(<<>>)
  ELSE Err("Failed to delete tag")

\* (mutant) a failed commit lookup is not an error
get_latest_commit_sha_Lenient(status, data) == Ok(data)

get_latest_commit_sha(status, data) ==
  IF status = Transport THEN Err("transport")
  ELSE IF is_success(status) THEN Ok(data)
  ELSE Err("Failed to get latest commit")

\* (mutant) a refused tag object is not an error
create_tag_object_Lenient(status, data) == Ok(data)

create_tag_object(status, data) ==
  IF status = Transport THEN Err("transport")
  ELSE IF is_success(status) THEN Ok(data)
  ELSE Err("Failed to create tag object")

\* (mutant) a refused tag ref is not an error
create_tag_ref_Lenient(status) == Ok(<<>>)

create_tag_ref(status) ==
  IF status = Transport THEN Err("transport")
  ELSE IF is_success(status) THEN Ok(<<>>)
  ELSE Err("Failed to create tag ref")

\* (mutant) the release is created as a final release
create_release_request_Final(t, b) ==
  [tag_name |-> t, target_commitish |-> b, name |-> t, draft |-> FALSE,
   prerelease |-> FALSE, generate_release_notes |-> TRUE]

\* The JSON body create_release posts.
create_release_request(t, b) ==
  [tag_name |-> t, target_commitish |-> b, name |-> t, draft |-> FALSE,
   prerelease |-> TRUE, generate_release_notes |-> TRUE]

create_release(status, data) ==
  IF status = Transport THEN Err("transport")
  ELSE IF is_success(status) THEN Ok(data)
  ELSE Err("Failed to create release")

\* (mutant) the status of the PATCH is not looked at
update_release_Tolerant(status) ==
  IF status = Transport THEN Err("transport") ELSE Ok(<<>>)

update_release(status) ==
  IF status = Transport THEN Err("transport")
  ELSE IF is_success(status) THEN Ok(<<>>)
  ELSE Err("Failed to update release")

\* (mutant) only not-found counts as absence
branch_exists_Strict(status) ==
  IF status = Transport THEN Err("transport")
  ELSE IF is_success(status) THEN Ok(TRUE)
  ELSE IF status = 404 THEN Ok(FALSE)
  ELSE Err("Failed to check branch")

branch_exists(status) ==
  IF status = Transport THEN Err("transport")
  ELSE Ok(is_success(status))

\* is_prerelease, given the result of its get_release_by_tag.
is_prerelease(found) ==
  IF found.kind # "ok" THEN found
  ELSE IF found.val.some
       THEN Ok(IF found.val.val.prerelease.some
               THEN found.val.val.prerelease.val ELSE FALSE)
       ELSE Ok(FALSE)

\* should_increment_patch, given the results of its get_release_by_tag and,
\* when it gets that far, of its branch_exists.
should_increment_patch(t, found, exists) ==
  LET is_pre      == is_prerelease(found)
      branch_name == get_release_branch_name(t)
  IN  IF is_pre.kind # "ok" THEN is_pre
      ELSE IF ~is_pre.val THEN Ok(FALSE)
      ELSE IF branch_name.kind # "ok" THEN branch_name
      ELSE IF exists.kind # "ok" THEN exists
      ELSE Ok(is_pre.val /\ exists.val)

\* Whether should_increment_patch gets as far as its branch_exists.
AsksForBranch(t, found) ==
  /\ is_prerelease(found).kind = "ok"
  /\ is_prerelease(found).val
  /\ get_release_branch_name(t).kind = "ok"

determine_tag_version(requested_tag, found, exists, overflow_checks) ==
  LET increment == should_increment_patch(requested_tag, found, exists)
  IN  IF increment.kind # "ok" THEN increment
      ELSE IF increment.val
           THEN increment_patch_version(requested_tag, overflow_checks)
      ELSE Ok(requested_tag)

\* (mutant) the convention branch is returned whether or not it exists
get_release_branch_for_tag_NoFallback(t, exists) ==
  LET branch_name == get_release_branch_name(t)
  IN  IF branch_name.kind # "ok" THEN branch_name
      ELSE IF exists.kind # "ok" THEN exists
      ELSE branch_name

\* get_release_branch_for_tag, given the result of its branch_exists (which
\* it asks for only once the branch name is computed).
get_release_branch_for_tag(t, exists) ==
  LET branch_name == get_release_branch_name(t)
  IN  IF branch_name.kind # "ok" THEN branch_name
      ELSE IF exists.kind # "ok" THEN exists
      ELSE IF exists.val THEN branch_name
      ELSE Ok(ReleasePrefix \o t)

(***************************************************************************)
(* OpenAIClient.format_release_notes: the completion's text, or an error    *)
(* when the request fails or the response carries no content string.       *)
(***************************************************************************)
\* The text the completion service returns for a prompt built from notes.
Completion(notes) == <<"#">> \o notes

format_release_notes(status, content) ==
  IF status = Transport THEN Err("transport")
  ELSE IF content.some THEN Ok(content.val)
  ELSE Err("Failed to extract formatted release notes")

(***************************************************************************)
(* process_release: its locals.  pc names the await the run is suspended   *)
(* at (the remote call it issues next).                                    *)
(***************************************************************************)
NewRun(rt, at) ==
  [pc |-> at, outcome |-> "running", error |-> "none",
   requested_tag |-> rt, tag |-> <<>>, is_incremented_version |-> FALSE,
   branch |-> <<>>, commit_sha |-> None, existing_release |-> None,
   step0_release |-> NoResult, step1_release |-> None, tag_object_sha |-> None, release_target |-> <<>>,
   release |-> None, formatted_notes |-> None]

(***************************************************************************)
(* Specification SpecVersion: one call of one version function on one tag. *)
(***************************************************************************)
NotAsked == 0 - 1

NoAnswers == [release |-> [status |-> NotAsked, data |-> None],
              branch |-> NotAsked]

\* What the host may answer to the release lookup and to the branch lookup.
ReleaseAnswers ==
  {[status |-> 200,
    data |-> [id |-> 1, body |-> Some(<<"o">>), prerelease |-> pre]] :
      pre \in {Some(TRUE), Some(FALSE), None}}
    \cup {[status |-> st, data |-> None] : st \in {404, 500, Transport}}

BranchAnswers == {200, 404, 500, Transport}

InitVersion ==
  /\ arg_tag \in TagInputs
  /\ called = "none"
  /\ answers = NoAnswers
  /\ returned = NoResult
  /\ releases = {} /\ refs = {} /\ tag_objects = {} /\ branches = {}
  /\ next_id = 1
  /\ run = NewRun(<<>>, "idle")
  /\ ops = <<>>
  /\ faulty = FALSE
  /\ history = <<>>
  /\ profile \in Profiles(arg_tag)
  /\ suspended = Nobody

CallIncrementPatchVersion ==
  /\ called = "none"
  /\ returned' = increment_patch_version(arg_tag, OverflowChecks)
  /\ called' = "increment_patch_version"
  /\ UNCHANGED <<arg_tag, answers, profile, host_vars, run, ops, history, suspended>>

CallGetMinorVersion ==
  /\ called = "none"
  /\ returned' = get_minor_version(arg_tag)
  /\ called' = "get_minor_version"
  /\ UNCHANGED <<arg_tag, answers, profile, host_vars, run, ops, history, suspended>>

CallGetReleaseBranchName ==
  /\ called = "none"
  /\ returned' = get_release_branch_name(arg_tag)
  /\ called' = "get_release_branch_name"
  /\ UNCHANGED <<arg_tag, answers, profile, host_vars, run, ops, history, suspended>>

CallDetermineTagVersion ==
  /\ called = "none"
  /\ \E rel \in ReleaseAnswers :
       LET found == get_release_by_tag(rel.status, rel.data)
       IN  \E st \in IF AsksForBranch(arg_tag, found) THEN BranchAnswers
                     ELSE {NotAsked} :
             /\ answers' = [release |-> rel, branch |-> st]
             /\ returned' = determine_tag_version(arg_tag, found,
                                                  branch_exists(st),
                                                  OverflowChecks)
  /\ called' = "determine_tag_version"
  /\ UNCHANGED <<arg_tag, profile, host_vars, run, ops, history, suspended>>

CallGetReleaseBranchForTag ==
  /\ called = "none"
  /\ \E st \in IF get_release_branch_name(arg_tag).kind = "ok" THEN BranchAnswers
               ELSE {NotAsked} :
       /\ answers' = [NoAnswers EXCEPT !.branch = st]
       /\ returned' = get_release_branch_for_tag(arg_tag, branch_exists(st))
  /\ called' = "get_release_branch_for_tag"
  /\ UNCHANGED <<arg_tag, profile, host_vars, run, ops, history, suspended>>

\* What the host may answer to the branch lookup, seen on its own.
StatusAnswers == BranchAnswers \cup {204, 301, 403, 422}

\* branch_exists, the name of the branch being arg_tag.
CallBranchExists ==
  /\ called = "none"
  /\ \E st \in StatusAnswers :
       /\ answers' = [NoAnswers EXCEPT !.branch = st]
       /\ returned' = branch_exists(st)
  /\ called' = "branch_exists"
  /\ UNCHANGED <<arg_tag, profile, host_vars, run, ops, history, suspended>>

NextVersion ==
  \/ CallBranchExists
  \/ CallIncrementPatchVersion
  \/ CallGetMinorVersion
  \/ CallGetReleaseBranchName
  \/ CallDetermineTagVersion
  \/ CallGetReleaseBranchForTag

SpecVersion == InitVersion /\ [][NextVersion]_vars

(***************************************************************************)
(* The host (the release-host REST API), as the client observes it.        *)
(***************************************************************************)
\* The body the host generates for a release created with
\* generate_release_notes.
AutoNotes == <<"n">>

\* The tip of a branch, and the hash of a tag object: opaque content hashes.
CommitOf(b) == [commit_of |-> b]

TagObjectHash(t, message, object) ==
  [tag |-> t, message |-> message, object |-> object]

HasRelease(t) == \E r \in releases : r.tag_name = t

ReleaseOf(t) == CHOOSE r \in releases : r.tag_name = t

HasRef(t) == \E r \in refs : r.tag = t

\* struct GitHubRelease: the fields the client decodes.
GitHubRelease(r) == [id |-> r.id, body |-> r.body, prerelease |-> r.prerelease]

\* Whitespace of str::trim, as far as the modelled bodies go.
IsWhitespace(c) == c \in {" ", "\n", "\t"}

\* notes.trim().is_empty()
TrimIsEmpty(text) == \A k \in 1..Len(text) : IsWhitespace(text[k])

(***************************************************************************)
(* The decisions of process_release.                                       *)
(***************************************************************************)
\* (mutant) every run is taken as Incremented
IsIncrementedVersion_Always(t, rt) == TRUE

\* main.rs:59
IsIncrementedVersion(t, rt) == t # rt

\* (mutant) the release found in step 1 is deleted in either mode
ShouldDeleteRelease_Always(found, incremented) == found.some

\* (mutant) the release found in step 1 is never deleted
ShouldDeleteRelease_Never(found, incremented) == FALSE

\* main.rs:67-76: the release found in step 1 is deleted unless incremented.
ShouldDeleteRelease(found, incremented) == found.some /\ ~incremented

\* (mutant) the tag is deleted in no run
ShouldDeleteTag_Never(incremented) == FALSE

\* (mutant) the tag is deleted in every run
ShouldDeleteTag_Always(incremented) == TRUE

\* main.rs:82
ShouldDeleteTag(incremented) == ~incremented

\* (mutant) the tag is created in no run
ShouldCreateTag_Never(existing, incremented) == FALSE

\* (mutant) the tag is created in every run
ShouldCreateTag_Always(existing, incremented) == TRUE

\* main.rs:114
ShouldCreateTag(existing, incremented) == ~existing.some \/ ~incremented

\* (mutant) a body of whitespace passes
ExtractNotes_AcceptBlank(rel) ==
  IF rel.body.some /\ Len(rel.body.val) > 0 THEN Ok(rel.body.val)
  ELSE Err("No release notes found or notes are empty.")

\* main.rs:137-145
ExtractNotes(rel) ==
  IF rel.body.some /\ ~TrimIsEmpty(rel.body.val) THEN Ok(rel.body.val)
  ELSE Err("No release notes found or notes are empty.")

(***************************************************************************)
(* Bookkeeping.                                                            *)
(***************************************************************************)
\* A remote operation: the await it was issued at, the method, its argument,
\* the status answered and whether the method returned Ok.
Op(name, arg, status, result) ==
  [site |-> run.pc, op |-> name, arg |-> arg, status |-> status,
   ok |-> result.kind = "ok"]

Failed(e) == [run EXCEPT !.pc = "done", !.outcome = "err", !.error = e]

Panicked(e) == [run EXCEPT !.pc = "done", !.outcome = "panic", !.error = e]

\* The run once determine_tag_version has returned t (main.rs:56-63).
Resolved(t) ==
  [run EXCEPT !.tag = t,
              !.is_incremented_version = IsIncrementedVersion(t, run.requested_tag),
              !.pc = "step1_get_release"]

\* The run once step 1 is over (main.rs:81-96).
AfterStep1(r) ==
  [r EXCEPT !.pc = IF ShouldDeleteTag(r.is_incremented_version)
                   THEN "step2_delete_tag" ELSE "step3_branch_exists"]

\* (mutant) the error of delete_tag is propagated with ?
AfterDeleteTag_Propagate(deleted) ==
  IF deleted.kind # "ok" THEN Failed(deleted.error)
  ELSE [run EXCEPT !.pc = "step3_branch_exists"]

\* (mutant) a failed delete_tag is tried again
AfterDeleteTag_Retry(deleted) ==
  IF deleted.kind # "ok" THEN run
  ELSE [run EXCEPT !.pc = "step3_branch_exists"]

\* The run once delete_tag has returned (main.rs:84-90): Ok and Err alike
\* are printed and the run goes on.
AfterDeleteTag(deleted) == [run EXCEPT !.pc = "step3_branch_exists"]

\* The run once the release to work on is known (main.rs:133-150).
WithRelease(r, rel) ==
  LET notes == ExtractNotes(rel)
  IN  IF notes.kind = "ok"
      THEN [r EXCEPT !.release = Some(rel), !.pc = "step7_format_notes"]
      ELSE [r EXCEPT !.release = Some(rel), !.pc = "done",
                     !.outcome = "err", !.error = "EmptyReleaseNotes"]

(***************************************************************************)
(* Specification Spec: one run of process_release against a host in any of *)
(* the initial states below, every request open to a fault.                *)
(***************************************************************************)
RequestedTags ==
  { <<"v", "1", ".", "0", ".", "0">>,
    <<"v", "1", ".", "2", ".", "9", "-", "r", "c">>,
    <<"v", "1", ".", "0", ".", "4", "2", "9", "4", "9", "6", "7", "2", "9", "5">>,
    <<"v", "1", ".", "0">> }

\* The tags a run for rt can come to work on besides rt.
BumpedTags(rt) ==
  {res.val : res \in {r \in {increment_patch_version(rt, oc) : oc \in BOOLEAN} :
                        r.kind = "ok"}}

\* The branches a run for rt can come to ask for.
CandidateBranches(rt) ==
  {ReleasePrefix \o rt}
    \cup (IF get_release_branch_name(rt).kind = "ok"
          THEN {get_release_branch_name(rt).val} ELSE {})

OldNotes == <<"o">>

InitialBodies == {Some(OldNotes), Some(<<>>), Some(<<" ">>), None}

HostRelease(id, t, body, prerelease, target) ==
  [id |-> id, tag_name |-> t, name |-> t, body |-> body, draft |-> FALSE,
   prerelease |-> prerelease, target_commitish |-> target]

InitialReleases(rt) ==
  { own \cup bumped :
      own \in {{}} \cup {{HostRelease(1, rt, Some(OldNotes), pre, <<"m">>)} :
                           pre \in {Some(TRUE), Some(FALSE), None}},
      bumped \in {{}} \cup {{HostRelease(2, t, body, Some(TRUE), <<"m">>)} :
                              t \in BumpedTags(rt), body \in InitialBodies} }

InitialRefs(rt) ==
  SUBSET {[tag |-> t, sha |-> CommitOf(<<"m">>)] : t \in {rt} \cup BumpedTags(rt)}

Init ==
  /\ arg_tag = <<>> /\ called = "none" /\ answers = NoAnswers
  /\ returned = NoResult
  /\ \E rt \in RequestedTags :
       /\ run = NewRun(rt, "determine_is_prerelease")
       /\ releases \in InitialReleases(rt)
       /\ refs \in InitialRefs(rt)
       /\ branches \in SUBSET CandidateBranches(rt)
       /\ profile \in Profiles(rt)
  /\ tag_objects = {}
  /\ next_id = 3
  /\ ops = <<>>
  /\ faulty = TRUE
  /\ history = <<>>
  /\ suspended = Nobody

\* The status the host answers a lookup with, faults aside.
Found(present) == IF present THEN 200 ELSE 404

\* The run once determine_tag_version has returned (main.rs:56).
Determined(result) ==
  IF result.kind = "ok" THEN Resolved(result.val)
  ELSE IF result.kind = "panic" THEN Panicked(result.error)
  ELSE Failed(result.error)

\* ---- determine_tag_version (main.rs:56) --------------------------------
\* should_increment_patch -> is_prerelease -> get_release_by_tag
DetermineIsPrerelease ==
  /\ run.pc = "determine_is_prerelease"
  /\ \E status \in {Found(HasRelease(run.requested_tag))} \cup FaultsNow :
       LET found == get_release_by_tag(status,
                      IF status = 200
                      THEN GitHubRelease(ReleaseOf(run.requested_tag)) ELSE None)
       IN  /\ ops' = Append(ops, Op("get_release_by_tag", run.requested_tag,
                                    status, found))
           /\ run' = IF AsksForBranch(run.requested_tag, found)
                     THEN [run EXCEPT !.pc = "determine_branch_exists",
                                      !.step0_release = found]
                     ELSE Determined(determine_tag_version(
                            run.requested_tag, found, NoResult, OverflowChecks))
  /\ UNCHANGED <<fn_vars, host_vars, history, suspended>>

\* should_increment_patch -> branch_exists; then increment_patch_version
DetermineBranchExists ==
  /\ run.pc = "determine_branch_exists"
  /\ \E status \in {Found(get_release_branch_name(run.requested_tag).val
                            \in branches)} \cup FaultsNow :
       LET exists == branch_exists(status)
       IN  /\ ops' = Append(ops, Op("branch_exists",
                                    get_release_branch_name(run.requested_tag).val,
                                    status, exists))
           /\ run' = Determined(determine_tag_version(
                       run.requested_tag, run.step0_release, exists,
                       OverflowChecks))
  /\ UNCHANGED <<fn_vars, host_vars, history, suspended>>

\* ---- step 1 (main.rs:65-79) --------------------------------------------
Step1GetRelease ==
  /\ run.pc = "step1_get_release"
  /\ \E status \in {Found(HasRelease(run.tag))} \cup FaultsNow :
       LET found == get_release_by_tag(status,
                      IF status = 200 THEN GitHubRelease(ReleaseOf(run.tag))
                      ELSE None)
       IN  /\ ops' = Append(ops, Op("get_release_by_tag", run.tag, status, found))
           /\ run' = IF found.kind # "ok" THEN Failed(found.error)
                     ELSE IF ShouldDeleteRelease(found.val,
                                                 run.is_incremented_version)
                          THEN [run EXCEPT !.step1_release = found.val,
                                           !.pc = "step1_delete_release"]
                     ELSE AfterStep1([run EXCEPT !.step1_release = found.val])
  /\ UNCHANGED <<fn_vars, host_vars, history, suspended>>

Step1DeleteRelease ==
  /\ run.pc = "step1_delete_release"
  /\ LET id == run.step1_release.val.id
     IN  \E status \in {IF \E r \in releases : r.id = id THEN 204 ELSE 404}
                         \cup (IF faulty THEN {404} ELSE {}) \cup FaultsNow :
           LET deleted == delete_release(status)
           IN  /\ ops' = Append(ops, Op("delete_release", id, status, deleted))
               /\ releases' = IF status = 204
                              THEN {r \in releases : r.id # id} ELSE releases
               /\ run' = IF deleted.kind # "ok" THEN Failed(deleted.error)
                         ELSE AfterStep1(run)
  /\ UNCHANGED <<fn_vars, refs, tag_objects, branches, next_id, faulty, history, suspended>>

\* ---- step 2 (main.rs:81-93) --------------------------------------------
Step2DeleteTag ==
  /\ run.pc = "step2_delete_tag"
  /\ \E status \in (IF HasRef(run.tag) THEN {204} ELSE {404, 422}) \cup FaultsNow :
       LET deleted == delete_tag(status)
       IN  /\ ops' = Append(ops, Op("delete_tag", run.tag, status, deleted))
           /\ refs' = IF status = 204
                      THEN {r \in refs : r.tag # run.tag} ELSE refs
           /\ run' = AfterDeleteTag(deleted)
  /\ UNCHANGED <<fn_vars, releases, tag_objects, branches, next_id, faulty, history, suspended>>

\* ---- get_release_branch_for_tag (main.rs:96) ----------------------------
Step3BranchExists ==
  /\ run.pc = "step3_branch_exists"
  /\ LET branch_name == get_release_branch_name(run.tag)
     IN  IF branch_name.kind # "ok"
         THEN /\ run' = Failed(get_release_branch_for_tag(run.tag, NoResult).error)
              /\ ops' = ops
         ELSE \E status \in {Found(branch_name.val \in branches)} \cup FaultsNow :
                LET exists == branch_exists(status)
                    chosen == get_release_branch_for_tag(run.tag, exists)
                IN  /\ ops' = Append(ops, Op("branch_exists", branch_name.val,
                                             status, exists))
                    /\ run' = IF chosen.kind # "ok" THEN Failed(chosen.error)
                              ELSE [run EXCEPT !.branch = chosen.val,
                                               !.pc = "step4_get_latest_commit"]
  /\ UNCHANGED <<fn_vars, host_vars, history, suspended>>

\* ---- latest commit of the branch (main.rs:99-109) ----------------------
Step4GetLatestCommit ==
  /\ run.pc = "step4_get_latest_commit"
  /\ \E status \in {Found(run.branch \in branches)} \cup FaultsNow :
       LET sha == get_latest_commit_sha(status, CommitOf(run.branch))
       IN  /\ ops' = Append(ops, Op("get_latest_commit_sha", run.branch,
                                    status, sha))
           /\ run' = IF sha.kind # "ok" THEN Failed("Failed to get latest commit")
                     ELSE [run EXCEPT !.commit_sha = Some(sha.val),
                                      !.pc = "step5_get_release"]
  /\ UNCHANGED <<fn_vars, host_vars, history, suspended>>

\* (mutant) a release is created whether or not one was found
AfterTag_AlwaysCreate(r) == [r EXCEPT !.pc = "step6_branch_exists"]

\* The run once the tag is dealt with (main.rs:124-131).
AfterTag(r) ==
  IF r.existing_release.some THEN WithRelease(r, r.existing_release.val)
  ELSE [r EXCEPT !.pc = "step6_branch_exists"]

\* ---- the tag (main.rs:111-122) -----------------------------------------
Step5GetRelease ==
  /\ run.pc = "step5_get_release"
  /\ \E status \in {Found(HasRelease(run.tag))} \cup FaultsNow :
       LET found == get_release_by_tag(status,
                      IF status = 200 THEN GitHubRelease(ReleaseOf(run.tag))
                      ELSE None)
       IN  /\ ops' = Append(ops, Op("get_release_by_tag", run.tag, status, found))
           /\ run' = IF found.kind # "ok" THEN Failed(found.error)
                     ELSE IF ShouldCreateTag(found.val, run.is_incremented_version)
                          THEN [run EXCEPT !.existing_release = found.val,
                                           !.pc = "step5_create_tag_object"]
                     ELSE AfterTag([run EXCEPT !.existing_release = found.val])
  /\ UNCHANGED <<fn_vars, host_vars, history, suspended>>

TagMessage(t) == <<"R", "e", "l", "e", "a", "s", "e", " ">> \o t

Step5CreateTagObject ==
  /\ run.pc = "step5_create_tag_object"
  /\ \E status \in {201} \cup FaultsNow :
       LET object == TagObjectHash(run.tag, TagMessage(run.tag),
                                   run.commit_sha.val)
           sha    == create_tag_object(status, object)
       IN  /\ ops' = Append(ops, Op("create_tag_object", object, status, sha))
           /\ tag_objects' = IF status = 201 THEN tag_objects \cup {object}
                             ELSE tag_objects
           /\ run' = IF sha.kind # "ok" THEN Failed(sha.error)
                     ELSE [run EXCEPT !.tag_object_sha = Some(sha.val),
                                      !.pc = "step5_create_tag_ref"]
  /\ UNCHANGED <<fn_vars, releases, refs, branches, next_id, faulty, history, suspended>>

Step5CreateTagRef ==
  /\ run.pc = "step5_create_tag_ref"
  /\ \E status \in {IF HasRef(run.tag) THEN 422 ELSE 201} \cup FaultsNow :
       LET ref     == [tag |-> run.tag, sha |-> run.tag_object_sha.val]
           created == create_tag_ref(status)
       IN  /\ ops' = Append(ops, Op("create_tag_ref", ref, status, created))
           /\ refs' = IF status = 201 THEN refs \cup {ref} ELSE refs
           /\ run' = IF created.kind # "ok" THEN Failed(created.error)
                     ELSE AfterTag(run)
  /\ UNCHANGED <<fn_vars, releases, tag_objects, branches, next_id, faulty, history, suspended>>

\* ---- create_release (main.rs:130) --------------------------------------
\* its get_release_branch_for_tag
Step6BranchExists ==
  /\ run.pc = "step6_branch_exists"
  /\ LET branch_name == get_release_branch_name(run.tag)
     IN  IF branch_name.kind # "ok"
         THEN /\ run' = Failed(get_release_branch_for_tag(run.tag, NoResult).error)
              /\ ops' = ops
         ELSE \E status \in {Found(branch_name.val \in branches)} \cup FaultsNow :
                LET exists == branch_exists(status)
                    chosen == get_release_branch_for_tag(run.tag, exists)
                IN  /\ ops' = Append(ops, Op("branch_exists", branch_name.val,
                                             status, exists))
                    /\ run' = IF chosen.kind # "ok" THEN Failed(chosen.error)
                              ELSE [run EXCEPT !.release_target = chosen.val,
                                               !.pc = "step6_create_release"]
  /\ UNCHANGED <<fn_vars, host_vars, history, suspended>>

\* its POST
Step6CreateRelease ==
  /\ run.pc = "step6_create_release"
  /\ LET request  == create_release_request(run.tag, run.release_target)
         accepted == /\ ~HasRelease(request.tag_name)
                     /\ HasRef(request.tag_name)
                          \/ request.target_commitish \in branches
         new      == HostRelease(next_id, request.tag_name, Some(AutoNotes),
                                 Some(request.prerelease),
                                 request.target_commitish)
     IN  \E status \in {IF accepted THEN 201 ELSE 422} \cup FaultsNow :
           LET created == create_release(status, GitHubRelease(new))
           IN  /\ ops' = Append(ops, Op("create_release", request, status, created))
               /\ releases' = IF status = 201 THEN releases \cup {new}
                              ELSE releases
               /\ next_id' = IF status = 201 THEN next_id + 1 ELSE next_id
               /\ refs' = IF status = 201 /\ ~HasRef(request.tag_name)
                          THEN refs \cup
                                 {[tag |-> request.tag_name,
                                   sha |-> CommitOf(request.target_commitish)]}
                          ELSE refs
               /\ run' = IF created.kind # "ok" THEN Failed(created.error)
                         ELSE WithRelease(run, created.val)
  /\ UNCHANGED <<fn_vars, tag_objects, branches, faulty, history, suspended>>

\* ---- the notes (main.rs:147-155) ---------------------------------------
\* What the completion service can answer: the completion, or, as a fault, a
\* response without the content string, an error status, or nothing.
FormatterAnswers(auto_notes) ==
  {[status |-> 200, content |-> Some(Completion(auto_notes))]}
    \cup (IF faulty
          THEN {[status |-> 200, content |-> None],
                [status |-> 500, content |-> None],
                [status |-> Transport, content |-> None]}
          ELSE {})

\* (mutant) when the formatter fails the unformatted notes are published
AfterFormatNotes_Fallback(formatted, auto_notes) ==
  [run EXCEPT !.formatted_notes = Some(IF formatted.kind = "ok"
                                       THEN formatted.val ELSE auto_notes),
              !.pc = "step8_update_release"]

\* The run once format_release_notes has returned (main.rs:150).
AfterFormatNotes(formatted, auto_notes) ==
  IF formatted.kind # "ok" THEN Failed(formatted.error)
  ELSE [run EXCEPT !.formatted_notes = Some(formatted.val),
                   !.pc = "step8_update_release"]

Step7FormatNotes ==
  /\ run.pc = "step7_format_notes"
  /\ LET auto_notes == ExtractNotes(run.release.val).val
     IN  \E answer \in FormatterAnswers(auto_notes) :
           LET formatted == format_release_notes(answer.status, answer.content)
           IN  /\ ops' = Append(ops, Op("format_release_notes", auto_notes,
                                        answer.status, formatted))
               /\ run' = AfterFormatNotes(formatted, auto_notes)
  /\ UNCHANGED <<fn_vars, host_vars, history, suspended>>

Step8UpdateRelease ==
  /\ run.pc = "step8_update_release"
  /\ LET id    == run.release.val.id
         notes == run.formatted_notes.val
     IN  \E status \in {Found(\E r \in releases : r.id = id)} \cup FaultsNow :
           LET updated == update_release(status)
           IN  /\ ops' = Append(ops, Op("update_release",
                                        [id |-> id, body |-> notes],
                                        status, updated))
               /\ releases' = IF status = 200
                              THEN {IF r.id = id
                                    THEN [r EXCEPT !.body = Some(notes)] ELSE r :
                                      r \in releases}
                              ELSE releases
               /\ run' = IF updated.kind # "ok" THEN Failed(updated.error)
                         ELSE [run EXCEPT !.pc = "done", !.outcome = "ok"]
  /\ UNCHANGED <<fn_vars, refs, tag_objects, branches, next_id, faulty, history, suspended>>

\* ---- the other users of the repository ----------------------------------
\* Between two steps of the run a branch is created or deleted.
BranchChanges ==
  /\ run.pc \notin {"done", "idle"}
  /\ \E b \in CandidateBranches(run.requested_tag) :
       branches' = IF b \in branches THEN branches \ {b} ELSE branches \cup {b}
  /\ UNCHANGED <<fn_vars, releases, refs, tag_objects, next_id, faulty, run,
                 ops, history, suspended>>

Next ==
  \/ BranchChanges
  \/ DetermineIsPrerelease
  \/ DetermineBranchExists
  \/ Step1GetRelease
  \/ Step1DeleteRelease
  \/ Step2DeleteTag
  \/ Step3BranchExists
  \/ Step4GetLatestCommit
  \/ Step5GetRelease
  \/ Step5CreateTagObject
  \/ Step5CreateTagRef
  \/ Step6BranchExists
  \/ Step6CreateRelease
  \/ Step7FormatNotes
  \/ Step8UpdateRelease

Spec == Init /\ [][Next]_vars

(***************************************************************************)
(* Specification SpecRerun: the tool is run again and again with the same  *)
(* requested tag, against a host that answers without faults and that no   *)
(* one else changes.                                                       *)
(***************************************************************************)
MaxRuns == 4

\* What a run leaves behind.
EndOfRun ==
  [releases |-> releases, refs |-> refs, tag_objects |-> tag_objects,
   outcome |-> run.outcome, tag |-> run.tag, branch |-> run.branch,
   is_incremented_version |-> run.is_incremented_version, ops |-> ops]

InitRerun ==
  /\ arg_tag = <<>> /\ called = "none" /\ answers = NoAnswers
  /\ returned = NoResult
  /\ \E rt \in RequestedTags :
       /\ run = NewRun(rt, "determine_is_prerelease")
       /\ releases \in InitialReleases(rt)
       /\ refs \in InitialRefs(rt)
       /\ branches \in SUBSET CandidateBranches(rt)
       /\ profile \in Profiles(rt)
  /\ tag_objects = {}
  /\ next_id = 3
  /\ ops = <<>>
  /\ faulty = FALSE
  /\ history = <<>>
  /\ suspended = Nobody

\* main is started again with the same --tag (main.rs:20-34).
Rerun ==
  /\ run.pc = "done"
  /\ Len(history) + 1 < MaxRuns
  /\ history' = Append(history, EndOfRun)
  /\ run' = NewRun(run.requested_tag, "determine_is_prerelease")
  /\ ops' = <<>>
  /\ UNCHANGED <<fn_vars, host_vars, suspended>>

NextRerun ==
  \/ Rerun
  \/ DetermineIsPrerelease
  \/ DetermineBranchExists
  \/ Step1GetRelease
  \/ Step1DeleteRelease
  \/ Step2DeleteTag
  \/ Step3BranchExists
  \/ Step4GetLatestCommit
  \/ Step5GetRelease
  \/ Step5CreateTagObject
  \/ Step5CreateTagRef
  \/ Step6BranchExists
  \/ Step6CreateRelease
  \/ Step7FormatNotes
  \/ Step8UpdateRelease

SpecRerun == InitRerun /\ [][NextRerun]_vars

(***************************************************************************)
(* Specification SpecRecovery: a run against a host that can answer with   *)
(* faults, and then the tool run again with the same requested tag against *)
(* the host as that run left it, now answering without faults; no one else *)
(* changes the repository.                                                 *)
(***************************************************************************)
MaxRecoveries == 1

\* main is started again with the same --tag once the faults are over
\* (main.rs:20-34).
RerunFailureFree ==
  /\ run.pc = "done"
  /\ Len(history) < MaxRecoveries
  /\ history' = Append(history, EndOfRun)
  /\ run' = NewRun(run.requested_tag, "determine_is_prerelease")
  /\ ops' = <<>>
  /\ faulty' = FALSE
  /\ UNCHANGED <<fn_vars, releases, refs, tag_objects, branches, next_id,
                 suspended>>

NextRecovery ==
  \/ RerunFailureFree
  \/ DetermineIsPrerelease
  \/ DetermineBranchExists
  \/ Step1GetRelease
  \/ Step1DeleteRelease
  \/ Step2DeleteTag
  \/ Step3BranchExists
  \/ Step4GetLatestCommit
  \/ Step5GetRelease
  \/ Step5CreateTagObject
  \/ Step5CreateTagRef
  \/ Step6BranchExists
  \/ Step6CreateRelease
  \/ Step7FormatNotes
  \/ Step8UpdateRelease

SpecRecovery == Init /\ [][NextRecovery]_vars

(***************************************************************************)
(* Specification SpecConcurrent: two processes of the tool are started     *)
(* with the same requested tag against a host that answers without faults. *)
(* Each remote operation is one step; between two steps the other process  *)
(* can take its own. run and ops are those of the process that steps next, *)
(* suspended holds the other process.                                      *)
(***************************************************************************)
\* The other process, and whether the two have been interleaved: whether a
\* process was left between its first remote operation and its end.
Other(r, o, mixed) == [present |-> TRUE, run |-> r, ops |-> o,
                       interleaved |-> mixed]

InitConcurrent ==
  /\ arg_tag = <<>> /\ called = "none" /\ answers = NoAnswers
  /\ returned = NoResult
  /\ \E rt \in RequestedTags :
       /\ run = NewRun(rt, "determine_is_prerelease")
       /\ suspended = Other(NewRun(rt, "determine_is_prerelease"), <<>>, FALSE)
       /\ releases \in InitialReleases(rt)
       /\ refs \in InitialRefs(rt)
       /\ branches \in SUBSET CandidateBranches(rt)
       /\ profile \in Profiles(rt)
  /\ tag_objects = {}
  /\ next_id = 3
  /\ ops = <<>>
  /\ faulty = FALSE
  /\ history = <<>>

\* The other process takes the next steps. No lock and no transaction keeps
\* it from doing so at any await of process_release (main.rs:42-158).
Switch ==
  /\ suspended.present
  /\ suspended.run.pc # "done"
  /\ run' = suspended.run
  /\ ops' = suspended.ops
  /\ suspended' = Other(run, ops,
                        \/ suspended.interleaved
                        \/ run.pc # "done" /\ ops # <<>>)
  /\ UNCHANGED <<fn_vars, host_vars, history>>

NextConcurrent ==
  \/ Switch
  \/ DetermineIsPrerelease
  \/ DetermineBranchExists
  \/ Step1GetRelease
  \/ Step1DeleteRelease
  \/ Step2DeleteTag
  \/ Step3BranchExists
  \/ Step4GetLatestCommit
  \/ Step5GetRelease
  \/ Step5CreateTagObject
  \/ Step5CreateTagRef
  \/ Step6BranchExists
  \/ Step6CreateRelease
  \/ Step7FormatNotes
  \/ Step8UpdateRelease

SpecConcurrent == InitConcurrent /\ [][NextConcurrent]_vars

(***************************************************************************)
(* The vocabulary of the properties: the tag grammar                       *)
(* v<major>.<minor>.<patch>[suffix] and the successor of a decimal numeral, *)
(* both on the text of the tag alone.                                      *)
(***************************************************************************)
RECURSIVE NumeralEnd(_, _)
NumeralEnd(s, i) ==
  IF i <= Len(s) /\ s[i] \in AsciiDigitSet THEN NumeralEnd(s, i + 1) ELSE i

\* The components of a tag; wf tells whether the tag follows the grammar.
TagShape(t) ==
  LET a == NumeralEnd(t, 2)
      b == NumeralEnd(t, a + 1)
      c == NumeralEnd(t, b + 1)
      wf == /\ Len(t) >= 6 /\ t[1] = "v"
            /\ a > 2 /\ a <= Len(t) /\ t[a] = "."
            /\ b > a + 1 /\ b <= Len(t) /\ t[b] = "."
            /\ c > b + 1
            /\ \A k \in c..Len(t) : t[k] # "\n"
  IN  [wf     |-> wf,
       major  |-> IF wf THEN SubSeq(t, 2, a - 1) ELSE <<>>,
       minor  |-> IF wf THEN SubSeq(t, a + 1, b - 1) ELSE <<>>,
       patch  |-> IF wf THEN SubSeq(t, b + 1, c - 1) ELSE <<>>,
       suffix |-> IF wf THEN SubSeq(t, c, Len(t)) ELSE <<>>]

WellFormedTag(t) == TagShape(t).wf

RECURSIVE StripZeros(_)
StripZeros(d) ==
  IF Len(d) > 0 /\ d[1] = "0" THEN StripZeros(Tail(d)) ELSE d

RECURSIVE NumeralPlusOne(_)
\* The numeral of n + 1 from the numeral of n without leading zeros (the
\* empty numeral standing for zero).
NumeralPlusOne(d) ==
  IF Len(d) = 0 THEN <<"1">>
  ELSE LET front == SubSeq(d, 1, Len(d) - 1)
           last  == d[Len(d)]
       IN  IF last = "9" THEN NumeralPlusOne(front) \o <<"0">>
           ELSE front \o <<AsciiDigits[DigitValue(last) + 2]>>

\* The tag with patch + 1 and everything else as it is.
PatchIncremented(t) ==
  LET p == TagShape(t)
  IN  <<"v">> \o p.major \o <<".">> \o p.minor \o <<".">>
        \o NumeralPlusOne(StripZeros(p.patch)) \o p.suffix

ConventionBranch(t) ==
  LET p == TagShape(t)
  IN  <<"r", "e", "l", "e", "a", "s", "e", "/", "v">> \o p.major \o <<".">>
        \o p.minor \o <<".", "x">>

FallbackBranch(t) == <<"r", "e", "l", "e", "a", "s", "e", "/">> \o t

U32MaxNumeral == <<"4", "2", "9", "4", "9", "6", "7", "2", "9", "5">>

RECURSIVE NumeralLess(_, _)
\* a < b for numerals of the same length.
NumeralLess(a, b) ==
  IF Len(a) = 0 THEN FALSE
  ELSE IF a[1] # b[1] THEN DigitValue(a[1]) < DigitValue(b[1])
  ELSE NumeralLess(Tail(a), Tail(b))

\* The patch of a well-formed tag is u32::MAX or more.
PatchAtOrPastU32Max(t) ==
  LET d == StripZeros(TagShape(t).patch)
  IN  \/ Len(d) > Len(U32MaxNumeral)
      \/ Len(d) = Len(U32MaxNumeral) /\ ~NumeralLess(d, U32MaxNumeral)

\* The host answered both lookups of determine_tag_version, found or not.
AnsweredPlainly ==
  /\ answers.release.status \in {200, 404}
  /\ answers.branch \in {200, 404, NotAsked}

AnsweredPrerelease ==
  /\ answers.release.status = 200
  /\ answers.release.data.prerelease = Some(TRUE)

(***************************************************************************)
(* Properties of the version functions (specification SpecVersion).        *)
(***************************************************************************)
\* The tag determine_tag_version is to return under the answers received.
ExpectedEffectiveTag ==
  IF AnsweredPrerelease /\ answers.branch = 200
  THEN PatchIncremented(arg_tag) ELSE arg_tag

\* C1: for every well-formed requested tag and every answer of the host
\* (release found or not, prerelease true, false or absent, branch found or
\* not), determine_tag_version returns the tag with patch + 1 exactly when
\* the release is a prerelease and the convention branch exists, and the
\* requested tag unchanged otherwise.
C1_EffectiveTag ==
  (/\ called = "determine_tag_version"
   /\ WellFormedTag(arg_tag)
   /\ AnsweredPlainly
   /\ returned.kind = "ok")
    => returned.val = ExpectedEffectiveTag

\* C2: for every well-formed tag, the tag increment_patch_version returns
\* has patch + 1 and major, minor and suffix as in the input.
C2_PatchPlusOne ==
  (/\ called = "increment_patch_version"
   /\ WellFormedTag(arg_tag)
   /\ returned.kind = "ok")
    => returned.val = PatchIncremented(arg_tag)

\* C3: for every well-formed tag, get_release_branch_for_tag returns the
\* convention branch when the branch lookup is answered with success, the
\* fallback release/<tag> on any other answer, and nothing but an error
\* when the lookup gets no answer.
C3_BranchForTag ==
  (called = "get_release_branch_for_tag" /\ WellFormedTag(arg_tag))
    => returned =
         IF answers.branch = Transport THEN Err("transport")
         ELSE IF is_success(answers.branch) THEN Ok(ConventionBranch(arg_tag))
         ELSE Ok(FallbackBranch(arg_tag))

C3_Witness ==
  /\ called = "get_release_branch_for_tag"
  /\ WellFormedTag(arg_tag)
  /\ Len(TagShape(arg_tag).suffix) > 0
  /\ answers.branch = 404
  /\ returned = Ok(FallbackBranch(arg_tag))

\* C4: for every tag that does not follow the grammar and every answer of
\* the host, determine_tag_version fails with InvalidTagFormat and never
\* returns the tag.
C4_MalformedRejected ==
  (/\ called = "determine_tag_version"
   /\ ~WellFormedTag(arg_tag)
   /\ AnsweredPlainly)
    => returned = Err("InvalidTagFormat")

\* C5: increment_patch_version, get_minor_version and
\* get_release_branch_name fail on every tag that does not follow the
\* grammar, and on every tag that does, get_minor_version returns
\* <major>.<minor> and get_release_branch_name release/v<major>.<minor>.x.
C5_ParsingRejectsMalformed ==
  /\ (called \in VersionFunctions /\ ~WellFormedTag(arg_tag))
       => returned.kind # "ok"
  /\ (called = "get_minor_version" /\ WellFormedTag(arg_tag))
       => returned = Ok(TagShape(arg_tag).major \o <<".">>
                          \o TagShape(arg_tag).minor)
  /\ (called = "get_release_branch_name" /\ WellFormedTag(arg_tag))
       => returned = Ok(ConventionBranch(arg_tag))

\* C6: when the patch of a well-formed tag is 4294967295 or more,
\* increment_patch_version fails; it returns no tag.
C6_OverflowIsFatal ==
  (/\ called = "increment_patch_version"
   /\ WellFormedTag(arg_tag)
   /\ PatchAtOrPastU32Max(arg_tag))
    => returned.kind # "ok"

\* Below u32::MAX the increment is exact: on every well-formed tag whose
\* patch is less than 4294967295, increment_patch_version returns the tag
\* with patch + 1, and determine_tag_version the expected effective tag.
PatchPlusOneBelowU32Max ==
  (/\ called = "increment_patch_version"
   /\ WellFormedTag(arg_tag)
   /\ ~PatchAtOrPastU32Max(arg_tag))
    => returned = Ok(PatchIncremented(arg_tag))

EffectiveTagBelowU32Max ==
  (/\ called = "determine_tag_version"
   /\ WellFormedTag(arg_tag)
   /\ ~PatchAtOrPastU32Max(arg_tag)
   /\ AnsweredPlainly)
    => returned = Ok(ExpectedEffectiveTag)

\* With ASCII digits only, the version functions fail on every tag that
\* does not follow the grammar.
AsciiTag == \A k \in 1..Len(arg_tag) : arg_tag[k] # ArabicIndicThree

ParsingRejectsMalformedAscii ==
  (called \in VersionFunctions /\ ~WellFormedTag(arg_tag) /\ AsciiTag)
    => returned = Err("InvalidTagFormat")

(***************************************************************************)
(* Properties of process_release (specification Spec).                     *)
(***************************************************************************)
\* The mode of the run, known once determine_tag_version has returned.
ModeKnown == Len(run.tag) > 0

Incremented == ModeKnown /\ run.tag # run.requested_tag

NotIncremented == ModeKnown /\ run.tag = run.requested_tag

Writes == {"delete_release", "delete_tag", "create_tag_object",
           "create_tag_ref", "create_release", "update_release"}

OpsOf(name) == {i \in 1..Len(ops) : ops[i].op = name}

\* C7: in an Incremented run neither delete_release nor delete_tag is
\* ever invoked.
C7_IncrementedNeverDeletes ==
  Incremented =>
    \A i \in 1..Len(ops) : ops[i].op \notin {"delete_release", "delete_tag"}

C7_Witness ==
  /\ Incremented
  /\ run.pc = "done" /\ run.outcome = "ok"
  /\ HasRelease(run.requested_tag)
  /\ HasRef(run.requested_tag)
  /\ OpsOf("create_release") # {}

\* C8: in a NotIncremented run whose step-1 lookup finds a release, the
\* next remote operation is delete_release with the id of that release, no
\* write precedes it, a failed deletion ends the run, and after a successful
\* one the release is gone, the later lookup finds none, and the release the
\* run goes on with is one it created.
C8_DeleteBeforeRecreate ==
  \A i \in 1..Len(ops) :
    (NotIncremented /\ ops[i].site = "step1_get_release" /\ ops[i].status = 200)
      => /\ run.step1_release.some
         /\ \A j \in 1..i : ops[j].op \notin Writes
         /\ IF i = Len(ops)
            THEN /\ run.pc = "step1_delete_release"
                 /\ HasRelease(run.tag)
                 /\ ReleaseOf(run.tag).id = run.step1_release.val.id
            ELSE /\ ops[i + 1].op = "delete_release"
                 /\ ops[i + 1].arg = run.step1_release.val.id
                 /\ IF ops[i + 1].ok
                    THEN /\ \A r \in releases : r.id # run.step1_release.val.id
                         /\ \A j \in (i + 2)..Len(ops) :
                              ops[j].site = "step5_get_release"
                                => ops[j].status # 200
                         /\ ~run.existing_release.some
                         /\ run.release.some
                              => /\ run.release.val.id # run.step1_release.val.id
                                 /\ \E j \in OpsOf("create_release") : ops[j].ok
                    ELSE /\ Len(ops) = i + 1
                         /\ run.pc = "done" /\ run.outcome = "err"

C8_Witness ==
  /\ NotIncremented
  /\ run.pc = "done" /\ run.outcome = "ok"
  /\ \E i \in OpsOf("delete_release") : ops[i].ok
  /\ \E j \in OpsOf("create_release") : ops[j].ok

\* The run ended in step 1 or before.
EndedBeforeStep2 ==
  /\ run.pc = "done"
  /\ Len(ops) > 0
  /\ ops[Len(ops)].site \in {"determine_is_prerelease", "determine_branch_exists",
                             "step1_get_release", "step1_delete_release"}

\* C9 as stated: every NotIncremented run attempts delete_tag exactly once.
\* A run that step 1 ends (the lookup fails, or delete_release fails) has
\* attempted it zero times.
C9_DeleteTagOnceInEveryRun ==
  (NotIncremented /\ run.pc = "done")
    => Cardinality(OpsOf("delete_tag")) = 1

\* C9: a NotIncremented run that gets past step 1 attempts delete_tag
\* exactly once, for the effective tag, and whatever the answer (success,
\* not found, another status, no answer) goes on to the branch resolution;
\* no run attempts it more than once.
C9_DeleteTagOnceAndTolerated ==
  /\ Cardinality(OpsOf("delete_tag")) <= 1
  /\ \A i \in OpsOf("delete_tag") :
       /\ NotIncremented
       /\ ops[i].arg = run.tag
       /\ IF i = Len(ops)
          THEN \/ run.pc = "step3_branch_exists" /\ run.outcome = "running"
               \/ run.pc = "done" /\ run.error = "InvalidTagFormat"
          ELSE ops[i + 1].site = "step3_branch_exists"
  /\ (/\ NotIncremented
      /\ run.pc \notin {"step1_get_release", "step1_delete_release",
                        "step2_delete_tag"}
      /\ ~EndedBeforeStep2)
       => Cardinality(OpsOf("delete_tag")) = 1

C9_Witness ==
  /\ NotIncremented
  /\ run.pc = "done" /\ run.outcome = "ok"
  /\ \E i \in OpsOf("delete_tag") : ops[i].status = 500 /\ ~ops[i].ok

\* C10: delete_tag returns Ok on not-found; delete_release returns Err on
\* not-found and on every other answer that is no success, and the run then
\* ends at once, having deleted no tag and created no tag and no release.
C10_DeleteAsymmetry ==
  \A i \in 1..Len(ops) :
    /\ (ops[i].op = "delete_tag" /\ ops[i].status = 404) => ops[i].ok
    /\ (ops[i].op = "delete_release" /\ ~is_success(ops[i].status))
         => /\ ~ops[i].ok
            /\ i = Len(ops)
            /\ run.pc = "done" /\ run.outcome = "err"
            /\ \A j \in 1..Len(ops) :
                 ops[j].op \notin {"delete_tag", "create_tag_object",
                                   "create_tag_ref", "create_release"}

C10_Witness ==
  /\ Len(ops) > 0
  /\ ops[Len(ops)].op = "delete_release"
  /\ ops[Len(ops)].status = 404
  /\ run.pc = "done" /\ run.outcome = "err"
  /\ HasRef(run.tag)

\* The lookup of step 5 has returned: the run is at the tag step or past it.
TagDecided ==
  \E i \in 1..Len(ops) : ops[i].site = "step5_get_release" /\ ops[i].ok

\* What the lookup of step 5 found is what the run holds as existing_release.
LookupOfStep5Kept ==
  \A i \in 1..Len(ops) :
    (ops[i].site = "step5_get_release" /\ ops[i].ok)
      => (run.existing_release.some <=> ops[i].status = 200)

TagWanted == ~run.existing_release.some \/ NotIncremented

\* C11: in a run that has made the lookup of step 5, create_tag_object is
\* invoked exactly when that lookup found no release or the run is
\* NotIncremented, create_tag_ref follows exactly when create_tag_object
\* succeeded, and an Incremented run that found a release creates neither
\* and leaves the tag objects and the tag refs of the host as they were.
C11_EnsureTag ==
  /\ LookupOfStep5Kept
  /\ (OpsOf("create_tag_object") # {} \/ OpsOf("create_tag_ref") # {}
        \/ run.pc \in {"step5_create_tag_object", "step5_create_tag_ref"})
       => TagDecided /\ TagWanted
  /\ (TagDecided /\ TagWanted)
       => /\ run.pc = "step5_create_tag_object"
               \/ OpsOf("create_tag_object") # {}
          /\ (\E i \in OpsOf("create_tag_object") : ops[i].ok)
               <=> (run.pc = "step5_create_tag_ref"
                      \/ OpsOf("create_tag_ref") # {})
  /\ (TagDecided /\ Incremented /\ run.existing_release.some)
       => /\ OpsOf("create_tag_object") = {}
          /\ OpsOf("create_tag_ref") = {}
          /\ tag_objects = {}
          /\ \A r \in refs : r.sha = CommitOf(<<"m">>)

C11_Witness ==
  /\ Incremented
  /\ run.existing_release.some
  /\ ~HasRef(run.tag)
  /\ run.pc = "done" /\ run.outcome = "ok"

\* The release the lookup of step 5 found is on the host with the id and,
\* until this run updates it, the body the run holds.
ExistingReleaseOnHost ==
  \E r \in releases :
    /\ r.id = run.existing_release.val.id
    /\ r.tag_name = run.tag
    /\ r.body = run.existing_release.val.body
         \/ \E i \in OpsOf("update_release") : ops[i].ok

InCreateRelease == {"step6_branch_exists", "step6_create_release"}

\* C12: create_release is invoked only when the lookup of step 5 found no
\* release, and then as soon as the tag is created; when the lookup found a
\* release, create_release is not invoked and that release, by id and body,
\* is the one whose notes are formatted and which is updated.
C12_EnsureRelease ==
  /\ (run.pc \in InCreateRelease
        \/ \E i \in 1..Len(ops) : ops[i].site \in InCreateRelease)
       => TagDecided /\ ~run.existing_release.some
  /\ (TagDecided /\ ~run.existing_release.some
        /\ \E i \in OpsOf("create_tag_ref") : ops[i].ok)
       => \/ run.pc = "step6_branch_exists"
          \/ \E i \in 1..Len(ops) : ops[i].site = "step6_branch_exists"
  /\ (TagDecided /\ run.existing_release.some
        /\ (NotIncremented => \E i \in OpsOf("create_tag_ref") : ops[i].ok))
       => /\ run.release = run.existing_release
          /\ ExistingReleaseOnHost
          /\ \A i \in OpsOf("format_release_notes") :
               Some(ops[i].arg) = run.existing_release.val.body
          /\ \A i \in OpsOf("update_release") :
               ops[i].arg.id = run.existing_release.val.id

C12_Witness ==
  /\ TagDecided
  /\ run.existing_release.some
  /\ run.pc = "done" /\ run.outcome = "ok"
  /\ OpsOf("update_release") # {}

\* C13: every release a run creates targets the branch the run resolved in
\* step 3, whose latest commit it read and tagged, whatever happens to the
\* branches between the steps.
C13_TargetIsResolvedBranch ==
  \A i \in OpsOf("create_release") :
    ops[i].arg.target_commitish = run.branch

\* create_release resolves the branch again: its target is the branch of
\* step 3 when its own branch check is answered as the check of step 3 was.
TargetIsResolvedBranchWhenChecksAgree ==
  \A i \in OpsOf("create_release") :
    \A j, k \in 1..Len(ops) :
      (/\ ops[j].site = "step3_branch_exists"
       /\ ops[k].site = "step6_branch_exists"
       /\ is_success(ops[j].status) = is_success(ops[k].status))
        => ops[i].arg.target_commitish = run.branch

\* The same, with every answer of the run free of faults.
TargetIsResolvedBranchWithoutFaults ==
  (\A j \in 1..Len(ops) : ops[j].status \notin Faults)
    => C13_TargetIsResolvedBranch

\* C14: every release the tool creates is requested as a prerelease, not a
\* draft, named after the tag, with generated notes, and is on the host a
\* prerelease that is no draft.
C14_CreatedAsPrerelease ==
  /\ \A i \in OpsOf("create_release") :
       /\ ops[i].arg.prerelease = TRUE
       /\ ops[i].arg.draft = FALSE
       /\ ops[i].arg.generate_release_notes = TRUE
       /\ ops[i].arg.tag_name = run.tag
       /\ ops[i].arg.name = run.tag
  /\ \A r \in releases :
       r.id >= 3 => r.prerelease = Some(TRUE) /\ r.draft = FALSE /\ r.name = r.tag_name

C14_Witness ==
  /\ \E i \in OpsOf("create_release") : ops[i].ok
  /\ \E r \in releases : r.id >= 3 /\ r.tag_name = run.tag
  /\ run.step1_release.some
  /\ run.step1_release.val.prerelease = Some(FALSE)

\* The body is absent, empty or whitespace only.
BlankBody(rel) == ~rel.body.some \/ TrimIsEmpty(rel.body.val)

\* C15: when the release the run goes on with has an absent, empty or
\* whitespace-only body, the run ends in failure with neither
\* format_release_notes nor update_release invoked; the formatter is never
\* given an empty or whitespace-only text.
C15_EmptyNotesAbort ==
  /\ (run.release.some /\ BlankBody(run.release.val))
       => /\ run.pc = "done" /\ run.outcome = "err"
          /\ run.error = "EmptyReleaseNotes"
          /\ OpsOf("format_release_notes") = {}
          /\ OpsOf("update_release") = {}
  /\ \A i \in OpsOf("format_release_notes") :
       /\ ~TrimIsEmpty(ops[i].arg)
       /\ Some(ops[i].arg) = run.release.val.body

C15_Witness ==
  /\ run.release.some
  /\ run.release.val.body = Some(<<" ">>)
  /\ run.pc = "done" /\ run.error = "EmptyReleaseNotes"

\* The formatter failed: no response, or a response without the text.
FormatterFailed(i) == ops[i].op = "format_release_notes" /\ ~ops[i].ok

\* C16: when format_release_notes fails (no response, or a response without
\* the content string) the run ends in failure at once, update_release is
\* not invoked, and the release keeps the unformatted body; whatever is
\* published is the text the formatter returned.
C16_FormatFailureAborts ==
  /\ \A i \in OpsOf("format_release_notes") :
       /\ ops[i].ok <=> (ops[i].status # Transport /\ run.formatted_notes.some)
       /\ ~ops[i].ok
            => /\ i = Len(ops)
               /\ run.pc = "done" /\ run.outcome = "err"
               /\ OpsOf("update_release") = {}
               /\ \E r \in releases :
                    r.id = run.release.val.id /\ r.body = Some(ops[i].arg)
  /\ \A i \in OpsOf("update_release") :
       \E j \in OpsOf("format_release_notes") :
         /\ j < i /\ ops[j].ok
         /\ ops[i].arg.body = Completion(ops[j].arg)

C16_Witness ==
  /\ Len(ops) > 0
  /\ FormatterFailed(Len(ops))
  /\ ops[Len(ops)].status = 200
  /\ run.pc = "done" /\ run.outcome = "err"

\* The last remote operation published the formatted body of the release the
\* run selected.
PublishedLast ==
  /\ Len(ops) > 1
  /\ ops[Len(ops)].op = "update_release"
  /\ is_success(ops[Len(ops)].status)
  /\ ops[Len(ops) - 1].op = "format_release_notes"
  /\ run.release.some
  /\ ops[Len(ops)].arg.id = run.release.val.id
  /\ Some(ops[Len(ops) - 1].arg) = run.release.val.body
  /\ ops[Len(ops)].arg.body = Completion(ops[Len(ops) - 1].arg)

\* C17: a run that has ended reports success exactly when its last remote
\* operation was an update_release answered with success, addressed to the
\* release the run selected, with the body the formatter returned for that
\* release's body; every other run ends in an error or a panic.
C17_SuccessIffPublished ==
  run.pc = "done"
    => /\ run.outcome \in {"ok", "err", "panic"}
       /\ run.outcome = "ok" <=> PublishedLast

C17_Witness ==
  /\ run.pc = "done" /\ run.outcome = "ok"
  /\ PublishedLast
  /\ \E r \in releases :
       r.id = run.release.val.id /\ r.body = Some(ops[Len(ops)].arg.body)

\* C18: the first remote operation other than delete_tag that fails is the
\* last operation of the run, and the run ends in failure; a failed commit
\* lookup is followed by no creation of a tag object, a tag ref or a release.
C18_AbortOnFirstFailure ==
  /\ \A i \in 1..Len(ops) :
       (~ops[i].ok /\ ops[i].op # "delete_tag")
         => /\ i = Len(ops)
            /\ run.pc = "done" /\ run.outcome = "err"
  /\ \A i \in OpsOf("get_latest_commit_sha") :
       ~is_success(ops[i].status)
         => /\ i = Len(ops)
            /\ run.pc = "done" /\ run.outcome = "err"
            /\ tag_objects = {}
            /\ \A r \in releases : r.id < 3
  /\ (run.pc = "done" /\ run.outcome # "ok") => ~ENABLED Next

C18_Witness ==
  /\ Len(ops) > 0
  /\ ops[Len(ops)].op = "get_latest_commit_sha"
  /\ ops[Len(ops)].status = 404
  /\ \E i \in OpsOf("delete_release") : ops[i].ok
  /\ run.pc = "done" /\ run.outcome = "err"

OpNames ==
  {"get_release_by_tag", "branch_exists", "delete_release", "delete_tag",
   "get_latest_commit_sha", "create_tag_object", "create_tag_ref",
   "create_release", "format_release_notes", "update_release"}

\* C19 as stated: each remote operation is issued at most once in a run.
\* The lookup of the release and the branch check are issued up to three
\* times each.
C19_EachOperationOnce ==
  \A name \in OpNames : Cardinality(OpsOf(name)) <= 1

\* C19: no step of a run is executed twice: each await of process_release
\* issues its remote operation at most once, so every write, the commit
\* lookup and the formatter are issued at most once, and get_release_by_tag
\* and branch_exists at most three times each, at three different steps.
C19_EachStepOnce ==
  /\ \A i, j \in 1..Len(ops) : ops[i].site = ops[j].site => i = j
  /\ \A name \in OpNames \ {"get_release_by_tag", "branch_exists"} :
       Cardinality(OpsOf(name)) <= 1
  /\ Cardinality(OpsOf("get_release_by_tag")) <= 3
  /\ Cardinality(OpsOf("branch_exists")) <= 3
  /\ \A i \in 1..Len(ops) : ops[i].op \in OpNames

C19_Witness ==
  /\ run.pc = "done" /\ run.outcome = "ok"
  /\ Cardinality(OpsOf("get_release_by_tag")) = 3
  /\ Cardinality(OpsOf("branch_exists")) = 3
  /\ \E i \in OpsOf("delete_tag") : ~ops[i].ok

(***************************************************************************)
(* Properties of repeated runs (specification SpecRerun).                  *)
(***************************************************************************)
\* The releases but for their ids, which the host assigns.
WithoutIds(rels) == {[r EXCEPT !.id = 0] : r \in rels}

\* The convention branch of the requested tag does not exist.
ConventionBranchAbsent ==
  /\ get_release_branch_name(run.requested_tag).kind = "ok"
  /\ get_release_branch_name(run.requested_tag).val \notin branches

\* The second run has ended.
SecondRunOver == run.pc = "done" /\ Len(history) = 1

\* One release for the tag, a prerelease with formatted notes, and one ref
\* for the tag, on the latest commit of the resolved branch.
ReleasedOnce ==
  /\ Cardinality({r \in releases : r.tag_name = run.tag}) = 1
  /\ ReleaseOf(run.tag).prerelease = Some(TRUE)
  /\ ReleaseOf(run.tag).body = Some(Completion(AutoNotes))
  /\ Cardinality({r \in refs : r.tag = run.tag}) = 1
  /\ \A r \in refs :
       r.tag = run.tag
         => r.sha = TagObjectHash(run.tag, TagMessage(run.tag),
                                  CommitOf(run.branch))

\* C20: on a host without faults that no one else changes, with the
\* convention branch absent, a second run with the same requested tag is
\* NotIncremented as the first was and leaves the host as the first run left
\* it, but for the id of the release: after a successful first run the second
\* succeeds too, with one prerelease release for the tag carrying formatted
\* notes and one tag ref on the latest commit of the resolved branch.
C20_RerunIdempotent ==
  (SecondRunOver /\ ConventionBranchAbsent)
    => /\ NotIncremented /\ ~history[1].is_incremented_version
       /\ history[1].tag = run.tag
       /\ WithoutIds(releases) = WithoutIds(history[1].releases)
       /\ refs = history[1].refs
       /\ tag_objects = history[1].tag_objects
       /\ run.outcome = history[1].outcome
       /\ history[1].outcome = "ok"
            => /\ ReleasedOnce
               /\ run.branch = history[1].branch
               /\ \E i \in OpsOf("delete_release") : ops[i].ok
               /\ \E i \in OpsOf("create_release") : ops[i].ok

C20_Witness ==
  /\ SecondRunOver /\ ConventionBranchAbsent
  /\ history[1].outcome = "ok" /\ run.outcome = "ok"
  /\ ReleasedOnce
  /\ \A r \in history[1].releases :
       r.tag_name = run.tag => r.id # ReleaseOf(run.tag).id

\* The end of the n-th run, the last one being the run that has just ended.
EndOfRunNo(n) == IF n <= Len(history) THEN history[n] ELSE EndOfRun

\* What convergence is about: the tags that have a release, the tag refs,
\* and the prerelease flag of every release.
Observed(end) ==
  [released |-> {r.tag_name : r \in end.releases},
   refs     |-> end.refs,
   flags    |-> {<<r.tag_name, r.prerelease>> : r \in end.releases}]

\* C21: on a host without faults that no one else changes, the third run
\* with the same requested tag and every later one leave the tags that have
\* a release, the tag refs and the prerelease flags as the run before left
\* them.
C21_RerunsConverge ==
  run.pc = "done"
    => \A n \in 3..(Len(history) + 1) :
         Observed(EndOfRunNo(n)) = Observed(EndOfRunNo(n - 1))

\* The second run still changes the host: the first created a prerelease
\* for the requested tag, the second works on the incremented tag.
C21_Witness ==
  /\ run.pc = "done" /\ Len(history) = 3
  /\ Observed(history[2]) # Observed(history[1])
  /\ Observed(history[3]) = Observed(history[2])
  /\ Observed(EndOfRun) = Observed(history[3])
  /\ run.outcome = "ok"

\* The first run has ended.
FirstRunOver == run.pc = "done" /\ Len(history) = 0

\* The operation of the run at a site, when the run got there.
HasOpAt(site) == \E i \in 1..Len(ops) : ops[i].site = site

OpAt(site) == ops[CHOOSE i \in 1..Len(ops) : ops[i].site = site]

\* The convention branch of the requested tag exists.
ConventionBranchPresent ==
  /\ WellFormedTag(run.requested_tag)
  /\ ConventionBranch(run.requested_tag) \in branches

\* The run created the tag object, the tag ref and a prerelease release for
\* tag t on branch b, formatted the generated notes and published them.
ReleasedFresh(t, b) ==
  /\ run.outcome = "ok"
  /\ run.tag = t
  /\ HasOpAt("step4_get_latest_commit")
  /\ OpAt("step4_get_latest_commit").arg = b
  /\ HasOpAt("step5_create_tag_object")
  /\ OpAt("step5_create_tag_object").arg
       = TagObjectHash(t, TagMessage(t), CommitOf(b))
  /\ HasOpAt("step5_create_tag_ref")
  /\ OpAt("step5_create_tag_ref").arg
       = [tag |-> t, sha |-> TagObjectHash(t, TagMessage(t), CommitOf(b))]
  /\ OpAt("step5_create_tag_ref").arg \in refs
  /\ HasOpAt("step6_create_release")
  /\ OpAt("step6_create_release").arg.tag_name = t
  /\ OpAt("step6_create_release").arg.target_commitish = b
  /\ OpAt("step6_create_release").arg.prerelease = TRUE
  /\ HasOpAt("step7_format_notes")
  /\ OpAt("step7_format_notes").arg = AutoNotes
  /\ HasOpAt("step8_update_release")
  /\ OpAt("step8_update_release").arg.body = Completion(AutoNotes)
  /\ \E r \in releases :
       /\ r.tag_name = t /\ r.id = OpAt("step8_update_release").arg.id
       /\ r.id >= 3
       /\ r.prerelease = Some(TRUE)
       /\ r.target_commitish = b
       /\ r.body = Some(Completion(AutoNotes))

\* C22: on a host without faults, when the requested tag has no release and
\* its convention branch exists, the run is NotIncremented, reads the latest
\* commit of the convention branch, creates the tag object and the tag ref
\* for the requested tag and a prerelease release on the convention branch,
\* formats the generated notes, publishes them and ends in success.
C22_FreshRelease ==
  (/\ FirstRunOver
   /\ ConventionBranchPresent
   /\ OpAt("determine_is_prerelease").status = 404)
    => /\ NotIncremented
       /\ ReleasedFresh(run.requested_tag,
                        ConventionBranch(run.requested_tag))

C22_Witness ==
  /\ FirstRunOver
  /\ ConventionBranchPresent
  /\ OpAt("determine_is_prerelease").status = 404
  /\ OpAt("step2_delete_tag").status = 204
  /\ run.outcome = "ok"

\* The requested tag has a prerelease and its convention branch exists.
BumpCase ==
  /\ ConventionBranchPresent
  /\ OpAt("determine_is_prerelease").status = 200
  /\ HasOpAt("determine_branch_exists")
  /\ run.step0_release.val.val.prerelease = Some(TRUE)

\* The tag had a release, or a tag ref, before the first run; a run in the
\* bump case deletes neither.
ReleasedBefore(t) == \E r \in releases : r.tag_name = t /\ r.id < 3

TaggedBefore(t) == \E r \in refs : r.tag = t /\ r.sha = CommitOf(<<"m">>)

\* C23: on a host without faults, when the requested tag has a prerelease,
\* its convention branch exists and the incremented tag has no release, the
\* run works on the incremented tag, deletes nothing, creates a tag object,
\* a tag ref and a release for the incremented tag and publishes formatted
\* notes to that release.
C23_BumpedRelease ==
  (/\ FirstRunOver
   /\ BumpCase
   /\ ~ReleasedBefore(PatchIncremented(run.requested_tag)))
    => /\ Incremented
       /\ OpsOf("delete_release") = {} /\ OpsOf("delete_tag") = {}
       /\ ReleasedFresh(PatchIncremented(run.requested_tag),
                        ConventionBranch(run.requested_tag))

\* The same below u32::MAX, when the incremented tag has no tag ref either.
BumpedReleaseBelowU32MaxUntagged ==
  (/\ FirstRunOver
   /\ BumpCase
   /\ ~PatchAtOrPastU32Max(run.requested_tag)
   /\ ~ReleasedBefore(PatchIncremented(run.requested_tag))
   /\ ~TaggedBefore(PatchIncremented(run.requested_tag)))
    => /\ Incremented
       /\ OpsOf("delete_release") = {} /\ OpsOf("delete_tag") = {}
       /\ ReleasedFresh(PatchIncremented(run.requested_tag),
                        ConventionBranch(run.requested_tag))

\* The same below u32::MAX, whether or not the incremented tag has a ref.
BumpedReleaseBelowU32Max ==
  (/\ FirstRunOver
   /\ BumpCase
   /\ ~PatchAtOrPastU32Max(run.requested_tag)
   /\ ~ReleasedBefore(PatchIncremented(run.requested_tag)))
    => /\ Incremented
       /\ OpsOf("delete_release") = {} /\ OpsOf("delete_tag") = {}
       /\ ReleasedFresh(PatchIncremented(run.requested_tag),
                        ConventionBranch(run.requested_tag))

\* The sites of the three lookups of the release.
LookupSites == {"determine_is_prerelease", "step1_get_release",
                "step5_get_release"}

\* C24: a not-found answer to get_release_by_tag is a normal result and the
\* run goes on to its next step; an answer that is a server error or no
\* answer at all is a failure that ends the run at whichever of the three
\* lookups it occurs, with no remote operation after it.
C24_AbsenceIsNotFailure ==
  \A i \in OpsOf("get_release_by_tag") :
    /\ ops[i].site \in LookupSites
    /\ ops[i].status \in {200, 404} <=> ops[i].ok
    /\ (ops[i].status = 404 /\ i = Len(ops))
         => /\ run.outcome = "running"
            /\ run.pc = CASE ops[i].site = "determine_is_prerelease"
                               -> "step1_get_release"
                           [] ops[i].site = "step1_get_release"
                               -> IF run.is_incremented_version
                                  THEN "step3_branch_exists"
                                  ELSE "step2_delete_tag"
                           [] ops[i].site = "step5_get_release"
                               -> "step5_create_tag_object"
    /\ ops[i].status \in Faults
         => /\ i = Len(ops)
            /\ run.pc = "done" /\ run.outcome = "err"
            /\ ops[i].site = "determine_is_prerelease"
                 => releases \in InitialReleases(run.requested_tag)
                      /\ refs \in InitialRefs(run.requested_tag)

C24_Witness ==
  /\ Len(ops) > 0
  /\ ops[Len(ops)].site = "step5_get_release"
  /\ ops[Len(ops)].status = 500
  /\ \E i \in OpsOf("get_release_by_tag") : ops[i].status = 404
  /\ \E i \in OpsOf("delete_tag") : ops[i].status = 204
  /\ run.pc = "done" /\ run.outcome = "err"

\* C25: branch_exists returns true exactly on a success status, false on
\* every other status, not-found included, and fails only when the request
\* gets no response.
C25_BranchExists ==
  called = "branch_exists"
    => /\ returned.kind = "ok" <=> answers.branch # Transport
       /\ returned.kind = "ok"
            => (returned.val <=> answers.branch \in 200..299)
       /\ answers.branch = 404 => returned = Ok(FALSE)

C25_Witness ==
  /\ called = "branch_exists"
  /\ answers.branch = 500
  /\ returned = Ok(FALSE)

\* The branch for tag t, as the branches of the host are.
ResolvedFor(t) ==
  IF ConventionBranch(t) \in branches THEN ConventionBranch(t)
  ELSE FallbackBranch(t)

\* Every branch resolved, in this run and in the earlier ones, is the branch
\* for its tag, and create_release resolves the branch of step 3 again.
ResolutionsAgree ==
  /\ run.branch # <<>> => run.branch = ResolvedFor(run.tag)
  /\ run.release_target # <<>> => run.release_target = run.branch
  /\ \A k \in 1..Len(history) :
       history[k].branch # <<>>
         => history[k].branch = ResolvedFor(history[k].tag)

\* A step of get_release_branch_for_tag changes nothing on the host and
\* issues one read of the convention branch, or none when the tag has no
\* convention branch.
ResolutionOnlyReads ==
  run.pc \in {"step3_branch_exists", "step6_branch_exists"}
    => /\ UNCHANGED host_vars
       /\ \/ ops' = ops /\ ~WellFormedTag(run.tag) /\ run'.outcome = "err"
          \/ /\ WellFormedTag(run.tag)
             /\ Len(ops') = Len(ops) + 1
             /\ ops'[Len(ops')].op = "branch_exists"
             /\ ops'[Len(ops')].arg = ConventionBranch(run.tag)
             /\ \A i \in 1..Len(ops) : ops'[i] = ops[i]

TagObjectOn(commit) == TagObjectHash(run.tag, TagMessage(run.tag), commit)

\* C28: a tag ref is created only straight after this run's tag object was
\* created, and with the hash of that object; the tag object is made on the
\* commit that get_latest_commit_sha returned for the resolved branch in
\* this run; and when create_tag_object fails the run ends there, having
\* created no tag ref and no release.
C28_TwoStepTag ==
  /\ \A i \in OpsOf("create_tag_ref") :
       /\ i > 1
       /\ ops[i - 1].op = "create_tag_object"
       /\ ops[i - 1].ok /\ is_success(ops[i - 1].status)
       /\ ops[i].arg.sha = ops[i - 1].arg
       /\ ops[i].arg.sha \in tag_objects
       /\ ops[i].arg.tag = run.tag
  /\ \A j \in OpsOf("create_tag_object") :
       \E k \in 1..(j - 1) :
         /\ ops[k].op = "get_latest_commit_sha"
         /\ ops[k].ok /\ is_success(ops[k].status)
         /\ ops[k].arg = run.branch
         /\ run.commit_sha = Some(CommitOf(ops[k].arg))
         /\ ops[j].arg = TagObjectOn(run.commit_sha.val)
  /\ \A j \in OpsOf("create_tag_object") :
       (~ops[j].ok \/ ~is_success(ops[j].status))
         => /\ j = Len(ops)
            /\ run.pc = "done" /\ run.outcome = "err"
            /\ OpsOf("create_tag_ref") = {}
            /\ OpsOf("create_release") = {}

C28_Witness ==
  /\ run.pc = "done" /\ run.outcome = "ok"
  /\ \E i \in OpsOf("create_tag_ref") :
       /\ ops[i].ok
       /\ ops[i].arg.sha = TagObjectOn(CommitOf(run.branch))
       /\ ops[i].arg \in refs

\* A run that a failing create_tag_object ended.
TagObjectRefused ==
  /\ run.pc = "done"
  /\ Len(ops) > 0
  /\ ops[Len(ops)].op = "create_tag_object"
  /\ ~ops[Len(ops)].ok

\* The remote resource each method of the client addresses, from its URL.
ResourceOf(name) ==
  CASE name = "get_release_by_tag"    -> "release"
    [] name = "delete_release"        -> "release"
    [] name = "create_release"        -> "release"
    [] name = "update_release"        -> "release"
    [] name = "delete_tag"            -> "tag_ref"
    [] name = "create_tag_ref"        -> "tag_ref"
    [] name = "create_tag_object"     -> "tag_object"
    [] name = "get_latest_commit_sha" -> "branch_ref"
    [] name = "branch_exists"         -> "branch"
    [] OTHER                          -> "none"

\* The methods of the client that read the remote.
RemoteReads == {"get_release_by_tag", "get_latest_commit_sha", "branch_exists"}

\* The resource whose state decides a write: the release for the release
\* writes, the tag ref for the tag writes.
DecidedBy(name) ==
  IF name \in {"delete_tag", "create_tag_object", "create_tag_ref"}
  THEN "tag_ref" ELSE "release"

\* Operation k read the resource for the run's tag that write i is about.
ReadFor(k, i) ==
  /\ ops[k].op \in RemoteReads
  /\ ops[k].ok
  /\ ResourceOf(ops[k].op) = DecidedBy(ops[i].op)
  /\ ops[k].arg = run.tag

\* C29: every remote write of a run comes after a read, in this run, of the
\* resource it writes: the release for the tag before a write to the
\* release, the tag ref for the tag before a write to the tag.
C29_ReadBeforeWrite ==
  \A i \in 1..Len(ops) :
    ops[i].op \in Writes => \E k \in 1..(i - 1) : ReadFor(k, i)

\* What the run does: every write comes after a lookup of the release for
\* the tag, the tag writes as well, and no step reads the tag ref.
WritesFollowReleaseLookup ==
  /\ \A i \in 1..Len(ops) :
       ops[i].op \in Writes
         => \E k \in 1..(i - 1) :
              /\ ops[k].op = "get_release_by_tag"
              /\ ops[k].ok
              /\ ops[k].arg = run.tag
  /\ \A k \in 1..Len(ops) :
       ops[k].op \in RemoteReads => ResourceOf(ops[k].op) # "tag_ref"

\* A tag ref present on the host makes the creation of the tag ref fail.
TagRefCreationRefused ==
  /\ run.pc = "done" /\ run.outcome = "err"
  /\ ops[Len(ops)].op = "create_tag_ref"
  /\ ops[Len(ops)].status = 422

\* Notes as the formatter returns them.
Formatted(body) == body.some /\ \E notes \in {AutoNotes, OldNotes} :
                                  body.val = Completion(notes)

\* The run that ended as h created the release for its tag and then aborted
\* in format_release_notes or in update_release.
LateAbort(h) ==
  /\ h.outcome = "err"
  /\ \E i \in 1..Len(h.ops) :
       /\ h.ops[i].op = "create_release"
       /\ h.ops[i].ok /\ h.ops[i].status = 201
       /\ h.ops[i].arg.tag_name = h.tag
  /\ h.ops[Len(h.ops)].op \in {"format_release_notes", "update_release"}
  /\ ~h.ops[Len(h.ops)].ok

\* The failure-free run after the first one is over.
RecoveryRunOver == Len(history) = 1 /\ run.pc = "done" /\ ~faulty

\* C30: after a run that created the release for its effective tag T and
\* aborted before publishing notes, a failure-free run with the same
\* requested tag ends with the release for T carrying formatted notes.
C30_RecoveryByRerun ==
  (RecoveryRunOver /\ LateAbort(history[1]))
    => \E r \in releases :
         r.tag_name = history[1].tag /\ Formatted(r.body)

\* What the second run does: when its effective tag is T again, which it is
\* when the first run was in Incremented mode or the convention branch of
\* the requested tag is absent, it succeeds and the release for T carries
\* formatted notes.
RecoveryWhenTagIsKept ==
  (RecoveryRunOver /\ LateAbort(history[1]))
    => /\ (history[1].is_incremented_version \/ ConventionBranchAbsent)
            => run.tag = history[1].tag
       /\ run.tag = history[1].tag
            => /\ run.outcome = "ok"
               /\ \E r \in releases :
                    r.tag_name = run.tag /\ Formatted(r.body)

\* The second run bumps past the release the first run left unformatted.
RecoveryBumpsPast ==
  /\ RecoveryRunOver /\ LateAbort(history[1])
  /\ run.outcome = "ok"
  /\ run.tag # history[1].tag
  /\ \E r \in releases : r.tag_name = history[1].tag /\ ~Formatted(r.body)

\* Both processes have ended.
BothOver == suspended.present /\ run.pc = "done" /\ suspended.run.pc = "done"

\* One process ran from its start to its end, and then the other.
Sequential == ~suspended.interleaved

\* C27: two runs for the same requested tag on a failure-free host, with
\* the convention branch absent. Run one after the other they end alike,
\* and when they succeed the host holds one release for the tag with
\* formatted notes and one tag ref on the tag object of the resolved branch.
\* Interleaved they can end otherwise, as C27_Witness shows: no sequential
\* execution ends so.
C27_SequentialRunsAgree ==
  (BothOver /\ Sequential /\ ConventionBranchAbsent)
    => /\ run.outcome = suspended.run.outcome
       /\ run.tag = suspended.run.tag
       /\ run.outcome = "ok" => ReleasedOnce

\* An interleaving after which one run has succeeded and the other has
\* aborted on a write that the host refused.
C27_Witness ==
  /\ BothOver /\ ~Sequential /\ ConventionBranchAbsent
  /\ run.outcome = "err" /\ suspended.run.outcome = "ok"
  /\ ops[Len(ops)].op \in {"create_tag_ref", "create_release", "update_release"}

\* The run that ended as h created the tag ref for its tag and then aborted
\* before a release was created.
TagOnlyAbort(h) ==
  /\ h.outcome = "err"
  /\ \E i \in 1..Len(h.ops) :
       /\ h.ops[i].op = "create_tag_ref"
       /\ h.ops[i].ok /\ h.ops[i].status = 201
       /\ h.ops[i].arg.tag = h.tag
  /\ \A i \in 1..Len(h.ops) :
       h.ops[i].op = "create_release" => h.ops[i].status # 201

\* C31: after a run that created the tag ref for its effective tag and
\* aborted before the release was created, a failure-free run with the same
\* requested tag succeeds, in NotIncremented and in Incremented mode.
C31_RecoveryAfterTagOnlyAbort ==
  (RecoveryRunOver /\ TagOnlyAbort(history[1])) => run.outcome = "ok"

\* What the second run does after a tag-only abort: after a NotIncremented
\* run it deletes the tag ref and succeeds; after an Incremented run it is
\* Incremented again, does not delete the tag ref, and its create_tag_ref is
\* refused.
RecoveryAfterTagOnlyAbortByMode ==
  (RecoveryRunOver /\ TagOnlyAbort(history[1]))
    => IF history[1].is_incremented_version
       THEN /\ run.outcome = "err"
            /\ run.tag = history[1].tag
            /\ Incremented
            /\ OpsOf("delete_tag") = {}
            /\ ops[Len(ops)].op = "create_tag_ref"
            /\ ops[Len(ops)].status = 422
       ELSE /\ run.outcome = "ok"
            /\ NotIncremented
            /\ run.tag = history[1].tag
            /\ \E i \in OpsOf("delete_tag") : ops[i].status = 204

\* Both modes of the first run occur.
TagOnlyAbortNotIncremented ==
  /\ RecoveryRunOver /\ TagOnlyAbort(history[1])
  /\ ~history[1].is_incremented_version /\ run.outcome = "ok"

\* The run carries the Incremented flag (main.rs:59).
FlaggedIncremented == ModeKnown /\ run.is_incremented_version

\* No operation of a run flagged Incremented is addressed to the release or
\* to the tag ref of the requested tag: nothing is deleted, what is created
\* is created under the effective tag, and the release updated is the one
\* of the effective tag.
RequestedTagNotAddressed ==
  FlaggedIncremented
    => /\ run.tag # run.requested_tag
       /\ OpsOf("delete_release") = {}
       /\ OpsOf("delete_tag") = {}
       /\ \A i \in OpsOf("create_tag_ref") : ops[i].arg.tag = run.tag
       /\ \A i \in OpsOf("create_release") : ops[i].arg.tag_name = run.tag
       /\ \A i \in OpsOf("update_release") :
            /\ \A r \in releases :
                 r.tag_name = run.requested_tag => r.id # ops[i].arg.id
            /\ ops[i].status = 200
                 => \E r \in releases :
                      r.id = ops[i].arg.id /\ r.tag_name = run.tag

\* A step that leaves the run flagged Incremented leaves the releases and
\* the tag refs of the requested tag as they were.
RequestedTagFrame ==
  run'.is_incremented_version
    => /\ {r \in releases' : r.tag_name = run.requested_tag}
            = {r \in releases : r.tag_name = run.requested_tag}
       /\ {r \in refs' : r.tag = run.requested_tag}
            = {r \in refs : r.tag = run.requested_tag}

\* C32: in an Incremented run the release and the tag ref of the requested
\* tag stay as they were at the start of the run: no delete and no update
\* is addressed to them, and the only release updated is the release of the
\* incremented tag.
C32_IncrementedLeavesRequested ==
  []RequestedTagNotAddressed /\ [][RequestedTagFrame]_vars

C32_Witness ==
  /\ FlaggedIncremented
  /\ run.pc = "done" /\ run.outcome = "ok"
  /\ \E i \in OpsOf("create_release") : ops[i].ok
  /\ \E i \in OpsOf("update_release") : ops[i].ok
  /\ \E r \in releases :
       /\ r.tag_name = run.requested_tag
       /\ r.id = 1 /\ r.body = Some(OldNotes) /\ r.prerelease = Some(TRUE)
  /\ \E r \in refs : r.tag = run.requested_tag /\ r.sha = CommitOf(<<"m">>)

\* The requested tag does not match v<major>.<minor>.<patch>[suffix].
MalformedRequest == ~WellFormedTag(run.requested_tag)

\* C33: a run for a malformed requested tag fails without having issued a
\* remote write, whatever the host holds under that name.
C33_MalformedNoMutation ==
  MalformedRequest
    => /\ \A i \in 1..Len(ops) : ops[i].op \notin Writes
       /\ run.pc = "done" => run.outcome = "err"

\* What the run does for a malformed requested tag: it fails, and it
\* creates and updates nothing and asks for no branch; but unless the
\* release of that name is a prerelease, the tag is first parsed in
\* get_release_branch_for_tag, after steps 1 and 2 have deleted.
MalformedFailsAfterDeletes ==
  MalformedRequest
    => /\ run.pc = "done" => run.outcome = "err"
       /\ \A i \in 1..Len(ops) :
            ops[i].op \in Writes => ops[i].op \in {"delete_release", "delete_tag"}
       /\ \A i \in 1..Len(ops) :
            ops[i].site \notin {"determine_branch_exists", "step3_branch_exists"}
       /\ (OpsOf("delete_release") \cup OpsOf("delete_tag") # {}
             /\ run.step1_release.some)
            => run.step1_release.val.prerelease # Some(TRUE)

\* The release and the tag ref of the malformed name are deleted, and then
\* the run fails.
MalformedDeleted ==
  /\ MalformedRequest
  /\ run.pc = "done" /\ run.outcome = "err"
  /\ \E i \in OpsOf("delete_release") : ops[i].status = 204
  /\ \E i \in OpsOf("delete_tag") : ops[i].status = 204
  /\ ~HasRelease(run.requested_tag) /\ ~HasRef(run.requested_tag)

\* The lookup of version resolution found a release of the requested tag
\* that is not a prerelease: the resolver returned the tag without asking
\* for the branch.
FinalAtStart ==
  /\ ModeKnown
  /\ HasOpAt("determine_is_prerelease")
  /\ OpAt("determine_is_prerelease").status = 200
  /\ ~HasOpAt("determine_branch_exists")

\* C34 as stated: when the requested tag has a release that is not a
\* prerelease, the run on a host without faults is NotIncremented, deletes
\* that release and the tag ref, and ends with both created anew, the
\* release as a prerelease. Stated here for the well-formed tags, the
\* malformed ones being the matter of C33.
C34_FinalRecreated ==
  (FinalAtStart /\ WellFormedTag(run.requested_tag) /\ run.pc = "done")
    => /\ NotIncremented
       /\ \E i \in OpsOf("delete_release") : ops[i].status = 204
       /\ \E i \in OpsOf("delete_tag") : ops[i].arg = run.tag
       /\ HasRef(run.tag)
       /\ HasRelease(run.tag)
       /\ ReleaseOf(run.tag).prerelease = Some(TRUE)

\* C34, amended: when the requested tag has a release that is not a prerelease, the
\* run on a host without faults is NotIncremented and deletes that release
\* and the tag ref; when no step of it fails it has created the tag ref and
\* the release anew, the new release being a prerelease. And the release
\* that a successful run created is flagged prerelease in every case.
C34_FinalNotPreserved ==
  /\ FinalAtStart
       => /\ NotIncremented
          /\ run.step1_release.some
               => run.step1_release.val.prerelease # Some(TRUE)
          /\ run.pc = "done"
               => /\ \E i \in OpsOf("delete_release") :
                       /\ ops[i].status = 204
                       /\ ops[i].arg = run.step1_release.val.id
                  /\ \E i \in OpsOf("delete_tag") : ops[i].arg = run.tag
                  /\ \A r \in releases : r.id # run.step1_release.val.id
          /\ (run.pc = "done" /\ run.outcome = "ok")
               => /\ \E i \in OpsOf("create_tag_ref") : ops[i].status = 201
                  /\ \E i \in OpsOf("create_release") : ops[i].status = 201
                  /\ HasRef(run.tag)
                  /\ HasRelease(run.tag)
                  /\ ReleaseOf(run.tag).prerelease = Some(TRUE)
  /\ (run.pc = "done" /\ run.outcome = "ok")
       => \A i \in OpsOf("create_release") :
            /\ HasRelease(run.tag)
            /\ ReleaseOf(run.tag).id = run.release.val.id
            /\ ReleaseOf(run.tag).prerelease = Some(TRUE)

C34_Witness ==
  /\ FinalAtStart
  /\ Len(history) = 0
  /\ run.step1_release.some /\ run.step1_release.val.prerelease = Some(FALSE)
  /\ run.pc = "done" /\ run.outcome = "ok"
  /\ \E i \in OpsOf("delete_tag") : ops[i].status = 204
  /\ ReleaseOf(run.tag).prerelease = Some(TRUE)
  /\ ReleaseOf(run.tag).id # run.step1_release.val.id

\* The final release and its tag ref are deleted and the run fails before
\* it has created anything, the resolved branch being absent.
FinalDeletedOnly ==
  /\ FinalAtStart /\ WellFormedTag(run.tag)
  /\ run.pc = "done" /\ run.outcome = "err"
  /\ ~HasRelease(run.tag) /\ ~HasRef(run.tag)

\* The resolver bumped: it asked for the convention branch, which it does
\* when the release of the requested tag is a prerelease, and the branch
\* was answered to exist.
ResolverBumped ==
  /\ HasOpAt("determine_branch_exists")
  /\ is_success(OpAt("determine_branch_exists").status)

\* The version is resolved once, for the requested tag: one lookup of its
\* release and at most one question for its convention branch.
ResolvedOnce ==
  /\ Cardinality({i \in 1..Len(ops) : ops[i].site = "determine_is_prerelease"}) = 1
  /\ Cardinality({i \in 1..Len(ops) : ops[i].site = "determine_branch_exists"}) <= 1
  /\ OpAt("determine_is_prerelease").arg = run.requested_tag
  /\ HasOpAt("determine_branch_exists")
       => OpAt("determine_branch_exists").arg = ConventionBranch(run.requested_tag)

BumpedAtMostOnce ==
  /\ run.tag \in {run.requested_tag}
                   \cup (IF WellFormedTag(run.requested_tag)
                         THEN {PatchIncremented(run.requested_tag)} ELSE {})
  /\ run.is_incremented_version <=> ResolverBumped
  /\ run.is_incremented_version <=> run.tag # run.requested_tag
  /\ ResolvedOnce

\* C35: the effective tag of a run is the requested tag or the requested
\* tag with patch + 1, the Incremented flag is set exactly when the
\* resolver bumped, and the version is resolved once, also when the
\* incremented tag has a prerelease itself and the convention branch
\* exists.
C35_BumpedAtMostOnce == ModeKnown => BumpedAtMostOnce

\* The same for the requested tags with a patch below u32::MAX.
BumpedAtMostOnceBelowU32Max ==
  (/\ ModeKnown
   /\ WellFormedTag(run.requested_tag)
        => ~PatchAtOrPastU32Max(run.requested_tag))
    => BumpedAtMostOnce

\* The incremented tag has a prerelease and the convention branch exists,
\* and the run has worked on patch + 1.
NoSecondBump ==
  /\ run.pc = "done" /\ run.outcome = "ok"
  /\ run.tag = PatchIncremented(run.requested_tag)
  /\ ConventionBranch(run.requested_tag) \in branches
  /\ run.step1_release.some
  /\ run.step1_release.val.prerelease = Some(TRUE)

\* The effective tag is neither the requested tag nor patch + 1.
TagWrapped ==
  /\ ModeKnown
  /\ run.tag # run.requested_tag
  /\ run.tag # PatchIncremented(run.requested_tag)

\* The run is Incremented and the lookup of step 5 found a release for the
\* incremented tag.
ReusePath == FlaggedIncremented /\ run.existing_release.some

\* C36: in an Incremented run that finds a release for the incremented tag,
\* no tag object, tag ref or release is created and nothing is deleted; the
\* one remote write is the update_release on the release found, which ends
\* a successful run; and the formatter is sent the body that release had
\* when it was looked up.
C36_ReuseOnlyUpdates ==
  ReusePath
    => /\ \A i \in 1..Len(ops) :
            ops[i].op \in Writes
              => /\ ops[i].op = "update_release"
                 /\ ops[i].arg.id = run.existing_release.val.id
                 /\ i = Len(ops)
       /\ Cardinality(OpsOf("update_release")) <= 1
       /\ run.release.some => run.release = run.existing_release
       /\ \A i \in OpsOf("format_release_notes") :
            /\ run.existing_release.val.body.some
            /\ ops[i].arg = run.existing_release.val.body.val
       /\ (run.pc = "done" /\ run.outcome = "ok")
            => /\ Cardinality(OpsOf("update_release")) = 1
               /\ ReleaseOf(run.tag).id = run.existing_release.val.id
               /\ ReleaseOf(run.tag).body
                    = Some(Completion(run.existing_release.val.body.val))

C36_Witness ==
  /\ ReusePath
  /\ run.pc = "done" /\ run.outcome = "ok"
  /\ run.existing_release.val.body = Some(OldNotes)
  /\ ReleaseOf(run.tag).body = Some(Completion(OldNotes))
  /\ Cardinality({i \in 1..Len(ops) : ops[i].op \in Writes}) = 1

\* The run deleted the release found in step 1, the tag ref of its tag.
DeletedRelease == \E i \in OpsOf("delete_release") : ops[i].status = 204
DeletedTag == \E i \in OpsOf("delete_tag") : ops[i].status = 204

\* A NotIncremented run has failed after its deletes and before a release
\* was created: in the branch query, the commit lookup, the lookup of step
\* 5, the creation of the tag object or of the tag ref, or create_release.
FailedBeforeRelease ==
  /\ NotIncremented
  /\ run.pc = "done" /\ run.outcome = "err"
  /\ DeletedRelease \/ DeletedTag
  /\ \A i \in OpsOf("create_release") : ops[i].status # 201

\* C37 as stated: the run ends with whatever it deleted still absent.
C37_DeletedStaysAbsent ==
  FailedBeforeRelease
    => /\ DeletedRelease => ~HasRelease(run.tag)
       /\ DeletedTag => ~HasRef(run.tag)

\* C37, amended: the run ends at the failing step, nothing being done
\* after it. The deleted release is absent. The tag ref is absent unless
\* step 5 had created the new one before the failure, and then it is the
\* new ref, on the tag object of this run.
C37_NoCompensation ==
  FailedBeforeRelease
    => /\ DeletedRelease
            => /\ ~HasRelease(run.tag)
               /\ \A r \in releases : r.id # run.step1_release.val.id
       /\ DeletedTag
            => /\ HasRef(run.tag)
                    <=> \E i \in OpsOf("create_tag_ref") : ops[i].status = 201
               /\ \A r \in refs :
                    r.tag = run.tag
                      => r.sha = TagObjectOn(CommitOf(run.branch))
       /\ \A i \in 1..Len(ops) :
            (/\ ops[i].op # "delete_tag"
             /\ \/ ~ops[i].ok
                \/ /\ ops[i].op # "branch_exists"
                   /\ ops[i].status \in {422, 500, Transport})
              => i = Len(ops)
       /\ \A i \in 1..Len(ops) :
            ops[i].op \in {"delete_release", "delete_tag"}
              => \A k \in (i + 1)..Len(ops) :
                   ops[k].op \in {"delete_tag", "branch_exists",
                                  "get_latest_commit_sha", "get_release_by_tag",
                                  "create_tag_object", "create_tag_ref",
                                  "create_release"}

C37_Witness ==
  /\ FailedBeforeRelease
  /\ DeletedRelease /\ DeletedTag
  /\ ops[Len(ops)].op = "create_tag_object"
  /\ ~HasRelease(run.tag) /\ ~HasRef(run.tag)

\* The release creation fails after step 5 has created the new tag ref.
FailedAfterNewTag ==
  /\ FailedBeforeRelease
  /\ DeletedRelease /\ DeletedTag
  /\ ops[Len(ops)].op = "create_release"
  /\ ~HasRelease(run.tag) /\ HasRef(run.tag)

\* The release of the requested tag is a prerelease and the check of its
\* convention branch was answered with a server error.
BranchCheckFailed ==
  /\ HasOpAt("determine_branch_exists")
  /\ OpAt("determine_branch_exists").status = 500

\* C38: when the requested tag has a prerelease and the check of the
\* convention branch in version resolution is answered with a server
\* error, the run does not fail there and does not bump: it goes on as
\* NotIncremented, and deletes the prerelease and then the tag ref of the
\* requested tag.
C38_FailedCheckReadAsAbsent ==
  BranchCheckFailed
    => /\ OpAt("determine_branch_exists").ok
       /\ NotIncremented /\ ~run.is_incremented_version
       /\ Len(ops) = 2 => run.pc = "step1_get_release"
       /\ \A i \in 1..Len(ops) :
            (ops[i].site = "step1_get_release" /\ ops[i].status = 200)
              => /\ run.step1_release.some
                 /\ run.step1_release.val.prerelease = Some(TRUE)
                 /\ IF i = Len(ops) THEN run.pc = "step1_delete_release"
                    ELSE /\ ops[i + 1].op = "delete_release"
                         /\ ops[i + 1].arg = run.step1_release.val.id
       /\ \A i \in OpsOf("delete_release") :
            ops[i].ok
              => /\ \A r \in releases : r.id # ops[i].arg
                 /\ IF i = Len(ops) THEN run.pc = "step2_delete_tag"
                    ELSE /\ ops[i + 1].op = "delete_tag"
                         /\ ops[i + 1].arg = run.requested_tag

C38_Witness ==
  /\ BranchCheckFailed
  /\ ConventionBranch(run.requested_tag) \in branches
  /\ DeletedRelease /\ DeletedTag
  /\ run.step1_release.val.prerelease = Some(TRUE)
  /\ ~HasRelease(run.requested_tag) /\ ~HasRef(run.requested_tag)
====
